---- MODULE Spec2Model ----
(***************************************************************************)
(* A model of the scoped matchers of the asserts package                   *)
(* (src/asserts/__init__.py): the error-variant context managers           *)
(* AssertRaisesContext / assert_raises / assert_raises_regex /             *)
(* assert_raises_errno / assert_succeeds, the advisory-variant context     *)
(* manager AssertWarnsContext / assert_warns / assert_warns_regex, and     *)
(* the str.format based message formatting they share.                     *)
(***************************************************************************)
EXTENDS Integers, Sequences, FiniteSets, TLC

(***************************************************************************)
(* Python values.  Every value carries a tag so that values of different   *)
(* Python types can be compared.                                           *)
(***************************************************************************)
None == [t |-> "none"]
NoAttr == [t |-> "noattr"]
StrV(s) == [t |-> "str", v |-> s]
IntV(n) == [t |-> "int", v |-> n]
ClsV(c) == [t |-> "cls", v |-> c]
\* True and False; the floats inf, -inf and nan, named by their repr.
BoolV(b) == [t |-> "bool", v |-> b]
FloatV(name) == [t |-> "float", v |-> name]
\* A list is the sequence of its items; a dict is the sequence of its
\* <<key, value>> pairs in insertion order, no key twice.
ListV(items) == [t |-> "list", v |-> items]
DictV(items) == [t |-> "dict", v |-> items]
ExcV(e) == [t |-> "exc", v |-> e]

(***************************************************************************)
(* The exception classes of the model and their base classes.              *)
(***************************************************************************)
Base(c) ==
    CASE c = "KeyError" -> "LookupError"
      [] c = "UnicodeWarning" -> "Warning"
      [] c = "UserWarning" -> "Warning"
      [] c = "DeprecationWarning" -> "Warning"
      [] c = "MyWarning" -> "UserWarning"
      [] c = "Exception" -> "object"
      [] OTHER -> "Exception"

RECURSIVE issubclass(_, _)
issubclass(c, d) ==
    \/ c = d
    \/ c # "object" /\ issubclass(Base(c), d)

(***************************************************************************)
(* Exception objects.  id is the object's identity: 0 for an exception     *)
(* the library creates, the number of the scope for one the block raises.  *)
(* truthy is the result of bool(exc); errno is NoAttr for an exception     *)
(* without that attribute.                                                 *)
(***************************************************************************)
NewExc(cls, args) ==
    [id |-> 0, cls |-> cls, truthy |-> TRUE, args |-> args, errno |-> NoAttr]

AssertionError(msg) == NewExc("AssertionError", <<StrV(msg)>>)

\* fail(msg): raise AssertionError(msg or "assertion failure")
fail(msg) == AssertionError(IF msg = "" THEN "assertion failure" ELSE msg)

(***************************************************************************)
(* str() and repr() of a value, and attribute access, as str.format uses   *)
(* them.  str of an exception is str of its only argument (repr of it for  *)
(* a KeyError) and the empty string when it has no argument.               *)
(***************************************************************************)
str_scalar(v) ==
    CASE v.t = "str" -> v.v
      [] v.t = "int" -> ToString(v.v)
      [] v.t = "bool" -> (IF v.v THEN "True" ELSE "False")
      [] v.t = "float" -> v.v
      [] v.t = "none" -> "None"
      [] v.t = "cls" -> "<class '" \o v.v \o "'>"
      [] OTHER -> "?"

repr_scalar(v) == IF v.t = "str" THEN "'" \o v.v \o "'" ELSE str_scalar(v)

\* ", ".join(texts) from the i-th text on
RECURSIVE join_from(_, _)
join_from(texts, i) ==
    IF i > Len(texts) THEN ""
    ELSE IF i = Len(texts) THEN texts[i]
    ELSE texts[i] \o ", " \o join_from(texts, i + 1)

RECURSIVE repr(_)
repr(v) ==
    CASE v.t = "exc" ->
             IF Len(v.v.args) = 0 THEN v.v.cls \o "()"
             ELSE v.v.cls \o "(" \o repr_scalar(v.v.args[1]) \o ")"
      [] v.t = "list" ->
             "[" \o join_from([i \in DOMAIN v.v |-> repr(v.v[i])], 1) \o "]"
      [] v.t = "dict" ->
             "{" \o join_from([i \in DOMAIN v.v |->
                                  repr(v.v[i][1]) \o ": " \o repr(v.v[i][2])], 1)
                 \o "}"
      [] OTHER -> repr_scalar(v)

str(v) ==
    IF v.t \in {"list", "dict"} THEN repr(v)
    ELSE IF v.t # "exc" THEN str_scalar(v)
    ELSE IF Len(v.v.args) = 0 THEN ""
    ELSE IF v.v.cls = "KeyError" THEN repr_scalar(v.v.args[1])
    ELSE str_scalar(v.v.args[1])

FmtOk(s) == [err |-> "", s |-> s]
FmtErr(e, what) == [err |-> e, s |-> what]

\* The first index >= i at which string s holds character ch, or 0.
Find(s, ch, i) ==
    IF \E j \in i..Len(s) : SubSeq(s, j, j) = ch
    THEN CHOOSE j \in i..Len(s) :
            /\ SubSeq(s, j, j) = ch
            /\ \A k \in i..(j - 1) : SubSeq(s, k, k) # ch
    ELSE 0

\* The part of string s before the first ch (all of s when it has none),
\* and the part after it (empty when it has none).
Before(s, ch) == SubSeq(s, 1, (IF Find(s, ch, 1) = 0 THEN Len(s) ELSE Find(s, ch, 1) - 1))
After(s, ch) == IF Find(s, ch, 1) = 0 THEN "" ELSE SubSeq(s, Find(s, ch, 1) + 1, Len(s))

(***************************************************************************)
(* One replacement field "name[.attr][!r]" of a template, looked up in     *)
(* the keyword arguments kwargs: an unknown name is a KeyError, an index   *)
(* an IndexError, an unknown attribute an AttributeError; the value found  *)
(* is converted with repr under !r and with str otherwise.                 *)
(***************************************************************************)
getattr(v, attr) ==
    IF attr = "" THEN FmtOk(v)
    ELSE IF v.t = "cls" /\ attr = "__name__" THEN FmtOk(StrV(v.v))
    ELSE FmtErr("AttributeError", attr)

convert_field(obj, conv) ==
    IF obj.err # "" THEN obj
    ELSE FmtOk(IF conv = "r" THEN repr(obj.s) ELSE str(obj.s))

\* A field name made of digits, or no name at all, is the index of a
\* positional argument; the assertions pass none.
Digits == {"0", "1", "2", "3", "4", "5", "6", "7", "8", "9"}
is_index(name) == \A i \in 1..Len(name) : SubSeq(name, i, i) \in Digits

get_value(name, attr, kwargs) ==
    IF is_index(name)
    THEN FmtErr("IndexError",
                "Replacement index " \o (IF name = "" THEN "0" ELSE name)
                    \o " out of range for positional args tuple")
    ELSE IF name \notin DOMAIN kwargs THEN FmtErr("KeyError", name)
    ELSE getattr(kwargs[name], attr)

get_field(field, kwargs) ==
    convert_field(get_value(Before(Before(field, "!"), "."),
                            After(Before(field, "!"), "."), kwargs),
                  After(field, "!"))

(***************************************************************************)
(* One step of template.format(kwargs) at position i of the template: the  *)
(* text the step yields and the position after it.  A step is a run of     *)
(* literal text, one of the escapes {{ and }}, or a replacement field.     *)
(***************************************************************************)
format_field(template, i, j, kwargs) ==
    IF j = 0 THEN [err |-> "ValueError", s |-> "{", next |-> i]
    ELSE get_field(SubSeq(template, i + 1, j - 1), kwargs) @@ [next |-> j + 1]

\* The first index >= i at which string s holds a brace, or Len(s) + 1.
brace_from(s, i) ==
    IF \E j \in i..Len(s) : SubSeq(s, j, j) \in {"{", "}"}
    THEN CHOOSE j \in i..Len(s) :
            /\ SubSeq(s, j, j) \in {"{", "}"}
            /\ \A k \in i..(j - 1) : SubSeq(s, k, k) \notin {"{", "}"}
    ELSE Len(s) + 1

format_char(template, i, c, nxt, kwargs) ==
    IF c = nxt /\ c \in {"{", "}"} THEN [err |-> "", s |-> c, next |-> i + 2]
    ELSE IF c = "}" THEN [err |-> "ValueError", s |-> "}", next |-> i]
    ELSE IF c = "{" THEN format_field(template, i, Find(template, "}", i + 1), kwargs)
    ELSE [err |-> "", s |-> SubSeq(template, i, brace_from(template, i) - 1),
          next |-> brace_from(template, i)]

format_step(template, i, kwargs) ==
    format_char(template, i, SubSeq(template, i, i),
                IF i < Len(template) THEN SubSeq(template, i + 1, i + 1) ELSE "",
                kwargs)

(***************************************************************************)
(* template.format(kwargs), scanned left to right from position i: the     *)
(* first step that fails ends the scan with its error.                     *)
(***************************************************************************)
format_join(s, rest) == IF rest.err # "" THEN rest ELSE FmtOk(s \o rest.s)

RECURSIVE format_from(_, _, _)
RECURSIVE format_rest(_, _, _)
format_rest(template, step, kwargs) ==
    IF step.err # "" THEN FmtErr(step.err, step.s)
    ELSE format_join(step.s, format_from(template, step.next, kwargs))

format_from(template, i, kwargs) ==
    IF i > Len(template) THEN FmtOk("")
    ELSE format_rest(template, format_step(template, i, kwargs), kwargs)

format(template, kwargs) == format_from(template, 1, kwargs)

\* raise AssertionError(msg or "assertion failure") with the formatted
\* message, unless formatting itself raised
fail_formatted(r) ==
    IF r.err # "" THEN NewExc(r.err, <<StrV(r.s)>>) ELSE fail(r.s)

\* fail(msg_fmt.format(kwargs)): the exception the statement raises.
fail_format(template, kwargs) == fail_formatted(format(template, kwargs))

\* A match of the whole text only.
search_whole(pattern, text) == text = pattern

(***************************************************************************)
(* re.search for the patterns of the model, which are literal text: the    *)
(* pattern is found anywhere in the text.                                  *)
(***************************************************************************)
search(pattern, text) ==
    \E i \in 1..(Len(text) - Len(pattern) + 1) :
        SubSeq(text, i, i + Len(pattern) - 1) = pattern

(***************************************************************************)
(* The inputs of the model.                                                *)
(***************************************************************************)
MaxScopes == 2
MaxTests == 2

ExpectedClasses == {"LookupError", "KeyError"}
ErrnoClasses == {"OSError"}
RaisedClasses == {"LookupError", "KeyError", "OSError"}
DefaultFmt == "{msg}"
NamesFmt == "{msg};{exc_type.__name__};{exc_name}"
TextFmt == "{text!r}:{msg}"
MsgFmts == {DefaultFmt, NamesFmt, TextFmt}
\* Templates that name every placeholder of assert_raises_regex and of
\* assert_raises_errno.
RegexFmt == "{msg};{exc_type.__name__};{exc_name};{text};{pattern}"
ErrnoFmt ==
    "{msg};{exc_type.__name__};{exc_name};{expected_errno};{actual_errno}"
Regex == "foo"
Errno == IntV(1)
ExcArgs == {<< >>, <<StrV("xfoo")>>, <<StrV("bar")>>, <<IntV(7)>>}
ExcErrnos(cls) ==
    IF issubclass(cls, "OSError") THEN {IntV(1), IntV(2)} ELSE {NoAttr}

\* The exceptions the block of scope number n can raise: of every class,
\* with every argument list and errno, and one of every class whose bool()
\* is false (a class that defines __len__ or __bool__).
BlockExceptions(n) ==
    UNION {{[id |-> n, cls |-> c, truthy |-> TRUE, args |-> a, errno |-> e] :
              a \in ExcArgs, e \in ExcErrnos(c)}
           \cup {[id |-> n, cls |-> c, truthy |-> FALSE,
                  args |-> <<StrV("xfoo")>>, errno |-> e] :
                    e \in ExcErrnos(c) \ {IntV(2)}} :
           c \in RaisedClasses}

(***************************************************************************)
(* The context manager objects.  kind is the object's class.               *)
(***************************************************************************)
\* AssertRaisesContext.__init__ and the __init__ of its two subclasses
AssertRaisesContext(kind, exception, pattern, expected_errno, msg_fmt) ==
    [kind |-> kind,
     exception |-> exception,
     msg_fmt |-> msg_fmt,
     _exc_type |-> exception,
     _exc_val |-> None,
     _exception_name |-> exception,
     _tests |-> << >>,
     pattern |-> pattern,
     expected_errno |-> expected_errno]

\* AssertRaisesContext.add_test
add_test(self, cb) == [self EXCEPT !._tests = Append(@, cb)]

\* The callbacks: the closures test and check_errno, and a caller's callback
\* number id, which returns (ok) or raises an AssertionError.
RegexTest == [fn |-> "test", id |-> 0, ok |-> TRUE]
ErrnoTest == [fn |-> "check_errno", id |-> 0, ok |-> TRUE]
Callback(id, ok) == [fn |-> "cb", id |-> id, ok |-> ok]

assert_raises(exception, msg_fmt) ==
    AssertRaisesContext("AssertRaisesContext", exception, None, None, msg_fmt)

assert_raises_regex(exception, regex, msg_fmt) ==
    add_test(AssertRaisesContext("AssertRaisesRegexContext", exception,
                                 StrV(regex), None, msg_fmt),
             RegexTest)

assert_raises_errno(exception, errno, msg_fmt) ==
    add_test(AssertRaisesContext("AssertRaisesErrnoContext", exception,
                                 None, errno, msg_fmt),
             ErrnoTest)

assert_succeeds(exception, msg_fmt) ==
    AssertRaisesContext("_AssertSucceeds", exception, None, None, msg_fmt)

\* The keyword arguments of AssertRaisesContext.format_message alone.
format_message_kwargs_base(self, default_msg) ==
    [msg |-> StrV(default_msg),
     exc_type |-> ClsV(self._exc_type),
     exc_name |-> StrV(self._exception_name)]

\* format_message of AssertRaisesContext and of its two subclasses: the
\* keyword arguments handed to msg_fmt.format
format_message_kwargs(self, default_msg) ==
    [msg |-> StrV(default_msg),
     exc_type |-> ClsV(self._exc_type),
     exc_name |-> StrV(self._exception_name)]
    @@ (CASE self.kind = "AssertRaisesRegexContext" ->
               [pattern |-> self.pattern, text |-> StrV("")]
          [] self.kind = "AssertRaisesErrnoContext" ->
               [expected_errno |-> self.expected_errno, actual_errno |-> None]
          [] OTHER -> << >>)

\* fail(self.format_message(msg))
fail_format_message(self, default_msg) ==
    fail_format(self.msg_fmt, format_message_kwargs(self, default_msg))

(***************************************************************************)
(* The closure test of assert_raises_regex, called with the exception exc: *)
(* the exception it raises, or None when it returns.                       *)
(***************************************************************************)
regex_kwargs(self, msg, text) ==
    [msg |-> StrV(msg), text |-> text, pattern |-> self.pattern,
     exc_type |-> ClsV(self.exception), exc_name |-> StrV(self.exception)]

regex_msg(self, text) ==
    IF text = None THEN self.exception \o " without message"
    ELSE repr(text) \o " does not match " \o repr(self.pattern)

regex_test(self, exc) ==
    IF Len(exc.args) = 0 \/ (exc.args[1].t = "str"
                             /\ ~search(self.pattern.v, exc.args[1].v))
    THEN fail_format(self.msg_fmt,
             regex_kwargs(self,
                 regex_msg(self, IF Len(exc.args) = 0 THEN None ELSE exc.args[1]),
                 IF Len(exc.args) = 0 THEN None ELSE exc.args[1]))
    ELSE IF exc.args[1].t # "str"
    THEN NewExc("TypeError", <<StrV("expected string or bytes-like object")>>)
    ELSE None

(***************************************************************************)
(* The closure check_errno of assert_raises_errno.                         *)
(***************************************************************************)
check_errno(self, exc) ==
    IF exc.errno = NoAttr
    THEN NewExc("AttributeError", <<StrV("errno")>>)
    ELSE IF self.expected_errno # exc.errno
    THEN fail_format(self.msg_fmt,
             [msg |-> StrV("wrong errno: " \o repr(self.expected_errno)
                               \o " != " \o repr(exc.errno)),
              exc_type |-> ClsV(self.exception),
              exc_name |-> StrV(self.exception),
              expected_errno |-> self.expected_errno,
              actual_errno |-> exc.errno])
    ELSE None

\* test(exc_val) for one registered callback
call_test(self, test, exc) ==
    CASE test.fn = "test" -> regex_test(self, exc)
      [] test.fn = "check_errno" -> check_errno(self, exc)
      [] OTHER -> IF test.ok THEN None
                  ELSE AssertionError("callback " \o ToString(test.id))

(***************************************************************************)
(* for test in self._tests: test(exc_val), from the i-th test on: the      *)
(* callbacks called, in order, and the exception that ended the loop (None *)
(* when every callback returned).                                         *)
(***************************************************************************)
tests_join(test, rest) ==
    [calls |-> <<test>> \o rest.calls, raised |-> rest.raised]

RECURSIVE run_tests(_, _, _)
RECURSIVE tests_rest(_, _, _, _)
tests_rest(self, i, exc, r) ==
    IF r # None THEN [calls |-> <<self._tests[i]>>, raised |-> r]
    ELSE tests_join(self._tests[i], run_tests(self, i + 1, exc))

run_tests(self, i, exc) ==
    IF i > Len(self._tests) THEN [calls |-> << >>, raised |-> None]
    ELSE tests_rest(self, i, exc, call_test(self, self._tests[i], exc))

(***************************************************************************)
(* AssertRaisesContext.__exit__(exc_type, exc_val, exc_tb), where exc is   *)
(* the exception the block raised (exc_type is its class) or None: the     *)
(* object afterwards, the callbacks called, the exception __exit__ raises  *)
(* (or None) and the value it returns.                                     *)
(***************************************************************************)
ExitResult(self, calls, raised, ret) ==
    [self |-> self, calls |-> calls, raised |-> raised, ret |-> ret]

\* The end of __exit__ after the loop over the callbacks: return True unless
\* a callback raised.
exit_tested(self, r) == ExitResult(self, r.calls, r.raised, r.raised = None)

\* An __exit__ that raises nothing of its own when the block raised nothing.
AssertRaisesContext__exit__silent(self, exc) ==
    IF exc = None \/ ~exc.truthy \/ ~issubclass(exc.cls, self.exception)
    THEN ExitResult(self, << >>, None, FALSE)
    ELSE exit_tested([self EXCEPT !._exc_val = exc], run_tests(self, 1, exc))

AssertRaisesContext__exit__(self, exc) ==
    IF exc = None \/ ~exc.truthy
    THEN ExitResult(self, << >>,
             fail_format_message(self, self._exception_name \o " not raised"),
             FALSE)
    ELSE IF ~issubclass(exc.cls, self.exception)
    THEN ExitResult([self EXCEPT !._exc_val = exc], << >>, None, FALSE)
    ELSE exit_tested([self EXCEPT !._exc_val = exc], run_tests(self, 1, exc))

\* An __exit__ that does not look at the class of the exception.
AssertSucceeds__exit__any(self, exc) ==
    IF exc # None
    THEN ExitResult(self, << >>,
             fail_format(self.msg_fmt,
                 [msg |-> StrV(self.exception \o " was unexpectedly raised"),
                  exc_type |-> ClsV(self.exception),
                  exc_name |-> StrV(self.exception),
                  exception |-> ExcV(exc)]),
             FALSE)
    ELSE ExitResult(self, << >>, None, FALSE)

(***************************************************************************)
(* _AssertSucceeds.__exit__ of assert_succeeds.                            *)
(***************************************************************************)
AssertSucceeds__exit__(self, exc) ==
    IF exc # None /\ issubclass(exc.cls, self.exception)
    THEN ExitResult(self, << >>,
             fail_format(self.msg_fmt,
                 [msg |-> StrV(self.exception \o " was unexpectedly raised"),
                  exc_type |-> ClsV(self.exception),
                  exc_name |-> StrV(self.exception),
                  exception |-> ExcV(exc)]),
             FALSE)
    ELSE ExitResult(self, << >>, None, FALSE)

(***************************************************************************)
(* How the with statement ends, given what the block raised (exc) and what *)
(* __exit__ did (r): an exception raised by __exit__ replaces the block's, *)
(* a true return value suppresses the block's exception, and otherwise the *)
(* block's exception propagates.                                           *)
(***************************************************************************)
Normal == [kind |-> "normal", exc |-> None]
Raise(e) == [kind |-> "raise", exc |-> e]
NoOutcome == [kind |-> "none", exc |-> None]

with_statement(exc, r) ==
    IF r.raised # None THEN Raise(r.raised)
    ELSE IF exc # None /\ ~r.ret THEN Raise(exc)
    ELSE Normal

\* The property AssertRaisesContext.exc_val
exc_val(self) ==
    IF self._exc_val = None
    THEN Raise(NewExc("RuntimeError",
                      <<StrV("must be called after leaving the context")>>))
    ELSE [kind |-> "value", exc |-> self._exc_val]

(***************************************************************************)
(* The warnings module, as far as catch_warnings(record=True) and warn use *)
(* it.  Its process-wide state is the list of filters, each an action and  *)
(* a category, and the handler a warning is shown by: 0 is the handler in  *)
(* force outside every scope, i > 0 the log list that the catch_warnings   *)
(* of matcher i created.  A warning is shown unless the first filter that  *)
(* matches its category says "ignore", or no filter matches it and the     *)
(* same warning was already shown from the same place since the filters    *)
(* last changed (the registry; every distinct warning of the model is      *)
(* issued from a place of its own).                                        *)
(***************************************************************************)
Filter(action, category) == [action |-> action, category |-> category]

filter_action(filters, category) ==
    IF \E i \in DOMAIN filters : issubclass(category, filters[i].category)
    THEN filters[CHOOSE i \in DOMAIN filters :
                    /\ issubclass(category, filters[i].category)
                    /\ \A j \in 1..(i - 1) :
                          ~issubclass(category, filters[j].category)].action
    ELSE "default"

\* warnings.simplefilter(action): a filter for every category, put first
simplefilter(filters, action) == <<Filter(action, "Warning")>> \o filters

\* warn: whether the handler in force is called with the warning
warn_shown(registry, filters, warning) ==
    /\ warning \notin registry
    /\ filter_action(filters, warning.category) # "ignore"

\* warn: the registry afterwards
warn_registry(registry, filters, warning) ==
    IF warning \notin registry
       /\ filter_action(filters, warning.category) = "default"
    THEN registry \cup {warning}
    ELSE registry

\* catch_warnings(record=True).__enter__: the state it saves
catch_warnings__enter__(filters, showwarning) ==
    [_filters |-> filters, _showwarning |-> showwarning]

(***************************************************************************)
(* The advisory-variant context manager object.                            *)
(***************************************************************************)
\* AssertWarnsContext.__init__ and AssertWarnsRegexContext.__init__
AssertWarnsContext(kind, warning_class, pattern, msg_fmt) ==
    [kind |-> kind,
     _warning_class |-> warning_class,
     _msg_fmt |-> msg_fmt,
     _warning_context |-> None,
     _warnings |-> << >>,
     _tests |-> << >>,
     pattern |-> pattern]

assert_warns(warning_type, msg_fmt) ==
    AssertWarnsContext("AssertWarnsContext", warning_type, None, msg_fmt)

\* The closure test of assert_warns_regex and a caller's callback number
\* id, which returns ok for every warning.
WarnsRegexTest == [fn |-> "test", id |-> 0, ok |-> TRUE]

assert_warns_regex(warning_type, regex, msg_fmt) ==
    add_test(AssertWarnsContext("AssertWarnsRegexContext", warning_type,
                                StrV(regex), msg_fmt),
             WarnsRegexTest)

\* format_message of AssertWarnsContext and of AssertWarnsRegexContext,
\* handed to fail
warns_fail_format_message(w) ==
    IF w.kind = "AssertWarnsRegexContext"
    THEN fail_format(w._msg_fmt,
             [msg |-> StrV("no " \o w._warning_class \o " matching "
                               \o repr(w.pattern) \o " issued"),
              exc_type |-> ClsV(w._warning_class),
              exc_name |-> StrV(w._warning_class),
              pattern |-> w.pattern])
    ELSE fail_format(w._msg_fmt,
             [msg |-> StrV(w._warning_class \o " not issued"),
              exc_type |-> ClsV(w._warning_class),
              exc_name |-> StrV(w._warning_class)])

\* test(warning) for one registered callback: the value it returns
warns_call_test(w, test, warning) ==
    IF test.fn = "test" THEN search(w.pattern.v, warning.message)
    ELSE test.ok

\* all(test(warning) for test in self._tests): the number of callbacks
\* called, which stops after the first that returns False
tests_called(w, warning) ==
    IF \A i \in DOMAIN w._tests : warns_call_test(w, w._tests[i], warning)
    THEN Len(w._tests)
    ELSE CHOOSE i \in DOMAIN w._tests :
            /\ ~warns_call_test(w, w._tests[i], warning)
            /\ \A j \in 1..(i - 1) : warns_call_test(w, w._tests[j], warning)

\* An _is_expected_warning that does not call the registered callbacks.
_is_expected_warning_untested(w, warning) ==
    issubclass(warning.category, w._warning_class)

\* AssertWarnsContext._is_expected_warning
_is_expected_warning(w, warning) ==
    IF ~issubclass(warning.category, w._warning_class) THEN FALSE
    ELSE \A i \in DOMAIN w._tests : warns_call_test(w, w._tests[i], warning)

\* any(self._is_expected_warning(w) for w in self._warnings): the number of
\* recorded warnings looked at, which stops after the first expected one
warnings_examined(w) ==
    IF \E k \in DOMAIN w._warnings : _is_expected_warning(w, w._warnings[k])
    THEN CHOOSE k \in DOMAIN w._warnings :
            /\ _is_expected_warning(w, w._warnings[k])
            /\ \A j \in 1..(k - 1) : ~_is_expected_warning(w, w._warnings[j])
    ELSE Len(w._warnings)

\* Every callback called with the first recorded warning, whatever its
\* category.
warns_calls_first(w, k) ==
    IF w._warnings = << >> THEN << >>
    ELSE [i \in DOMAIN w._tests |-> <<w._tests[i], 1>>]

\* The callbacks __exit__ calls, as pairs of the callback and the index of
\* the recorded warning it is called with: for the k-th warning looked at,
\* none when its category is not expected.
RECURSIVE warns_calls(_, _)
warns_calls(w, k) ==
    IF k > warnings_examined(w) THEN << >>
    ELSE (IF issubclass(w._warnings[k].category, w._warning_class)
          THEN [i \in 1..tests_called(w, w._warnings[k]) |-> <<w._tests[i], k>>]
          ELSE << >>)
         \o warns_calls(w, k + 1)

(***************************************************************************)
(* AssertWarnsContext.__exit__(exc_type, exc_val, exc_tb), after the       *)
(* catch_warnings object has restored the warnings module: the exception   *)
(* it raises (or None); it returns None.                                   *)
(***************************************************************************)
AssertWarnsContext__exit__(w, exc) ==
    ExitResult(w, warns_calls(w, 1),
               IF ~\E k \in DOMAIN w._warnings :
                      _is_expected_warning(w, w._warnings[k])
               THEN warns_fail_format_message(w)
               ELSE None,
               FALSE)

(***************************************************************************)
(* The state: one error-variant context manager object (self) and the      *)
(* with statements a caller runs with it, one after another.               *)
(*   phase    "new" before the first scope, "in" while a block runs,       *)
(*            "out" after a scope has ended                                *)
(*   scopes   the number of scopes entered so far                          *)
(*   raised   what the block of the last ended scope raised (or None)      *)
(*   outcome  how the last with statement ended                            *)
(*   calls    the callbacks the last __exit__ called, in order             *)
(*   read     the result of the last read of exc_val in this phase         *)
(***************************************************************************)
VARIABLES self, phase, scopes, raised, outcome, calls, read

(***************************************************************************)
(* The state of the advisory variant: the matcher objects ctx[i], the      *)
(* warnings module (filters, showwarning) and the with statements and      *)
(* warn calls a caller runs.                                               *)
(*   ambient    the filters in force outside every scope                   *)
(*   delivered  the warnings shown by the handler in force outside every   *)
(*              scope, in order                                            *)
(*   outside    the warnings issued while no scope was open that the       *)
(*              ambient filters let through, in order                      *)
(*   wstack     the matchers whose scope is open, innermost last           *)
(*   registry   the warnings shown since the filters last changed that no  *)
(*              filter matched                                             *)
(*   issued     the number of warnings issued so far                       *)
(*   entered    the number of scopes entered so far                        *)
(*   wend       the matcher whose with statement has just ended, how it    *)
(*              ended, what its block raised and the callbacks its         *)
(*              __exit__ called                                            *)
(***************************************************************************)
VARIABLES ctx, filters, showwarning, ambient, delivered, outside, wstack,
          registry, issued, entered, wend

(***************************************************************************)
(* The state of a call of one of the plain assertion functions: the call   *)
(* (the function and its arguments) and how it ended.                      *)
(***************************************************************************)
VARIABLES call, result

rvars == <<self, phase, scopes, raised, outcome, calls, read>>
avars == <<call, result>>
wvars == <<ctx, filters, showwarning, ambient, delivered, outside, wstack,
           registry, issued, entered, wend>>
vars == <<self, phase, scopes, raised, outcome, calls, read,
          ctx, filters, showwarning, ambient, delivered, outside, wstack,
          registry, issued, entered, wend, call, result>>

\* An __exit__ that leaves the filters and the handler as they are.
catch_warnings__exit__kept(w) ==
    [_filters |-> filters, _showwarning |-> showwarning]

\* self._warning_context.__exit__: the filters and the handler it puts back
catch_warnings__exit__(w) ==
    [_filters |-> w._warning_context._filters,
     _showwarning |-> w._warning_context._showwarning]

MaxWarnings == 2
MaxWarnTests == 1
MatcherIds == {1, 2}

WarningClasses == {"UserWarning", "MyWarning", "DeprecationWarning"}
ExpectedWarnings == {"UserWarning", "DeprecationWarning"}
WarningTexts == {"xfoo", "bar"}
\* The warnings a block issues: of every class, and of the expected classes
\* with both texts.
IssuedWarnings ==
    {w \in [category : WarningClasses, message : WarningTexts] :
        w.message = "xfoo" \/ w.category = "UserWarning"}
PatternFmt == "{msg};{exc_name};{pattern}"
WarnFmts == {DefaultFmt, PatternFmt}
AmbientFilters == {<< >>, <<Filter("ignore", "DeprecationWarning")>>}
FilterActions == {"always", "ignore"}
BlockError == [id |-> 1, cls |-> "KeyError", truthy |-> TRUE,
               args |-> <<StrV("bar")>>, errno |-> NoAttr]

Matchers ==
    {assert_raises(c, f) : c \in ExpectedClasses, f \in MsgFmts}
    \cup {assert_raises_regex(c, Regex, f) :
             c \in ExpectedClasses, f \in MsgFmts \cup {RegexFmt}}
    \cup {assert_raises_errno(c, Errno, f) :
             c \in ErrnoClasses, f \in MsgFmts \cup {ErrnoFmt}}
    \cup {assert_succeeds(c, f) : c \in ExpectedClasses, f \in MsgFmts}

WarnMatchers ==
    {assert_warns(c, f) : c \in ExpectedWarnings, f \in WarnFmts}
    \cup {assert_warns_regex(c, Regex, f) : c \in ExpectedWarnings, f \in WarnFmts}

NoEnd == [who |-> 0, outcome |-> NoOutcome, raised |-> None, calls |-> << >>]

NoCall == [fn |-> "none"]

\* No plain assertion function is called.
AInit ==
    /\ call = NoCall
    /\ result = NoOutcome

RInit ==
    /\ phase = "new"
    /\ scopes = 0
    /\ raised = None
    /\ outcome = NoOutcome
    /\ calls = << >>
    /\ read = NoOutcome

WInit ==
    /\ filters = ambient
    /\ showwarning = 0
    /\ delivered = << >>
    /\ outside = << >>
    /\ wstack = << >>
    /\ registry = {}
    /\ issued = 0
    /\ entered = 0
    /\ wend = NoEnd

Init ==
    /\ self \in Matchers
    /\ RInit
    /\ ctx = [i \in MatcherIds |-> assert_warns("UserWarning", DefaultFmt)]
    /\ ambient = << >>
    /\ WInit
    /\ AInit

\* One advisory matcher, ctx[1], in every configuration (ctx[2] is not used).
WarnsInit ==
    /\ self = assert_raises("KeyError", DefaultFmt)
    /\ RInit
    /\ ctx \in [MatcherIds -> WarnMatchers]
    /\ ctx[2] = assert_warns("UserWarning", DefaultFmt)
    /\ ambient \in AmbientFilters
    /\ WInit
    /\ AInit

\* Two advisory matchers whose scopes follow one another or nest.
NestedInit ==
    /\ self = assert_raises("KeyError", DefaultFmt)
    /\ RInit
    /\ ctx = [i \in MatcherIds |-> assert_warns("UserWarning", DefaultFmt)]
    /\ ambient \in AmbientFilters
    /\ WInit
    /\ AInit

\* with self: the scope is entered (__enter__ changes nothing)
Enter ==
    /\ phase \in {"new", "out"}
    /\ scopes < MaxScopes
    /\ phase' = "in"
    /\ scopes' = scopes + 1
    /\ raised' = None
    /\ outcome' = NoOutcome
    /\ calls' = << >>
    /\ read' = NoOutcome
    /\ UNCHANGED self
    /\ UNCHANGED <<wvars, avars>>

\* self.add_test(cb) with a caller's callback, before or inside a scope (a
\* callback added after a scope acts in the next scope only, where the
\* model adds it).
AddTest ==
    /\ self.kind # "_AssertSucceeds"
    /\ phase \in {"new", "in"}
    /\ Cardinality({i \in DOMAIN self._tests : self._tests[i].fn = "cb"}) < MaxTests
    /\ \E ok \in BOOLEAN :
          self' = add_test(self, Callback(Len(self._tests) + 1, ok))
    /\ UNCHANGED <<phase, scopes, raised, outcome, calls, read>>
    /\ UNCHANGED <<wvars, avars>>

\* The block ends, raising exc or nothing, and __exit__ runs.
ExitWith(exc, r) ==
    /\ self' = r.self
    /\ phase' = "out"
    /\ raised' = exc
    /\ outcome' = with_statement(exc, r)
    /\ calls' = r.calls
    /\ read' = NoOutcome
    /\ UNCHANGED scopes
    /\ UNCHANGED <<wvars, avars>>

RaisesExit ==
    /\ phase = "in"
    /\ self.kind # "_AssertSucceeds"
    /\ \E exc \in {None} \cup BlockExceptions(scopes) :
          ExitWith(exc, AssertRaisesContext__exit__(self, exc))

SucceedsExit ==
    /\ phase = "in"
    /\ self.kind = "_AssertSucceeds"
    /\ \E exc \in {None} \cup BlockExceptions(scopes) :
          ExitWith(exc, AssertSucceeds__exit__(self, exc))

\* The caller reads self.exc_val.
ReadExcVal ==
    /\ self.kind # "_AssertSucceeds"
    /\ read' = exc_val(self)
    /\ UNCHANGED <<self, phase, scopes, raised, outcome, calls>>
    /\ UNCHANGED <<wvars, avars>>

Next ==
    \/ Enter
    \/ AddTest
    \/ RaisesExit
    \/ SucceedsExit
    \/ ReadExcVal

Spec == Init /\ [][Next]_vars


(***************************************************************************)
(* The actions of the advisory variant.                                    *)
(***************************************************************************)
\* with ctx[i]: AssertWarnsContext.__enter__ creates a catch_warnings
\* object, which saves the filters and the handler and installs a new,
\* empty log list as the handler; the list becomes self._warnings.
WarnsEnter(i) ==
    /\ \A k \in DOMAIN wstack : wstack[k] # i
    /\ entered < MaxScopes
    /\ ctx' = [ctx EXCEPT ![i]._warning_context =
                              catch_warnings__enter__(filters, showwarning),
                          ![i]._warnings = << >>]
    /\ showwarning' = i
    /\ registry' = {}
    /\ wstack' = Append(wstack, i)
    /\ entered' = entered + 1
    /\ wend' = NoEnd
    /\ UNCHANGED <<filters, ambient, delivered, outside, issued>>
    /\ UNCHANGED <<rvars, avars>>

\* ctx[i].add_test(cb) with a caller's callback, before or inside a scope
WarnsAddTest(i) ==
    /\ \/ entered = 0
       \/ wstack # << >> /\ wstack[Len(wstack)] = i
    /\ Cardinality({k \in DOMAIN ctx[i]._tests : ctx[i]._tests[k].fn = "cb"})
          < MaxWarnTests
    /\ \E ok \in BOOLEAN :
          ctx' = [ctx EXCEPT ![i] =
                     add_test(@, Callback(Len(ctx[i]._tests) + 1, ok))]
    /\ wend' = NoEnd
    /\ UNCHANGED <<filters, showwarning, ambient, delivered, outside, wstack,
                   registry, issued, entered>>
    /\ UNCHANGED <<rvars, avars>>

\* warnings.warn(message, category), in the innermost open block or outside
\* every scope: unless the filters or the registry drop it, the warning is
\* appended to the log list installed as the handler, or shown by the outer
\* handler.
Warn ==
    /\ issued < MaxWarnings
    /\ issued' = issued + 1
    /\ \E warning \in IssuedWarnings :
          /\ ctx' = IF warn_shown(registry, filters, warning) /\ showwarning # 0
                    THEN [ctx EXCEPT ![showwarning]._warnings = Append(@, warning)]
                    ELSE ctx
          /\ delivered' = IF warn_shown(registry, filters, warning)
                             /\ showwarning = 0
                          THEN Append(delivered, warning)
                          ELSE delivered
          /\ outside' = IF wstack = << >>
                           /\ warn_shown(registry, ambient, warning)
                        THEN Append(outside, warning)
                        ELSE outside
          /\ registry' = warn_registry(registry, filters, warning)
    /\ wend' = NoEnd
    /\ UNCHANGED <<filters, showwarning, ambient, wstack, entered>>
    /\ UNCHANGED <<rvars, avars>>

\* warnings.simplefilter(action) in the innermost open block, while the
\* ambient filters are in force
SimpleFilter ==
    /\ wstack # << >>
    /\ filters = ambient
    /\ \E a \in FilterActions : filters' = simplefilter(filters, a)
    /\ registry' = {}
    /\ wend' = NoEnd
    /\ UNCHANGED <<ctx, showwarning, ambient, delivered, outside, wstack,
                   issued, entered>>
    /\ UNCHANGED <<rvars, avars>>

\* The innermost block ends, raising exc or nothing, and
\* AssertWarnsContext.__exit__ runs: the catch_warnings object restores the
\* filters and the handler it saved, then the recorded warnings are looked
\* through.
WarnsExitWith(i, exc, r) ==
    /\ filters' = catch_warnings__exit__(ctx[i])._filters
    /\ showwarning' = catch_warnings__exit__(ctx[i])._showwarning
    /\ registry' = {}
    /\ wstack' = SubSeq(wstack, 1, Len(wstack) - 1)
    /\ wend' = [who |-> i, outcome |-> with_statement(exc, r),
                raised |-> exc, calls |-> r.calls]
    /\ UNCHANGED <<ctx, ambient, delivered, outside, issued, entered>>
    /\ UNCHANGED <<rvars, avars>>

WarnsExit ==
    /\ wstack # << >>
    /\ \E exc \in {None, BlockError} :
          WarnsExitWith(wstack[Len(wstack)], exc,
              AssertWarnsContext__exit__(ctx[wstack[Len(wstack)]], exc))

WarnsNext ==
    \/ WarnsEnter(1)
    \/ WarnsAddTest(1)
    \/ Warn
    \/ SimpleFilter
    \/ WarnsExit

SpecWarns == WarnsInit /\ [][WarnsNext]_vars

NestedNext ==
    \/ \E i \in MatcherIds : WarnsEnter(i)
    \/ Warn
    \/ SimpleFilter
    \/ WarnsExit

SpecNested == NestedInit /\ [][NestedNext]_vars

(***************************************************************************)
(* Properties of the error-variant matchers.                               *)
(***************************************************************************)
IsRaises == self.kind # "_AssertSucceeds"
\* The last scope has ended and its block raised an exception of the
\* expected class or of a subclass of it / of another class.
RaisedExpected ==
    phase = "out" /\ raised # None /\ issubclass(raised.cls, self.exception)
RaisedOther ==
    phase = "out" /\ raised # None /\ ~issubclass(raised.cls, self.exception)
\* The i-th registered callback returns when called with the exception e.
TestReturns(i, e) == call_test(self, self._tests[i], e) = None
IsAssertionError(e) == e # None /\ e.cls = "AssertionError" /\ e.id = 0

\* C1: when the block of an assert_raises / assert_raises_regex /
\* assert_raises_errno scope raises nothing, the scope ends by raising; with
\* the default msg_fmt it raises AssertionError "<name> not raised", and
\* with a msg_fmt that uses msg, exc_type and exc_name it raises the
\* AssertionError built from these three.
C1_NotRaised ==
    (IsRaises /\ phase = "out" /\ raised = None) =>
        /\ outcome.kind = "raise"
        /\ self.msg_fmt = DefaultFmt =>
              outcome.exc = AssertionError(self.exception \o " not raised")
        /\ self.msg_fmt = NamesFmt =>
              outcome.exc = AssertionError(self.exception \o " not raised;"
                                \o self.exception \o ";" \o self.exception)

C1_Witness ==
    /\ self.kind = "AssertRaisesErrnoContext" /\ phase = "out" /\ raised = None
    /\ self.msg_fmt = NamesFmt
    /\ outcome.exc = AssertionError("OSError not raised;OSError;OSError")

\* C2 (as claimed): when the block raises an exception of the expected class
\* or a subclass and every registered callback returns, the with statement
\* ends normally and exc_val then returns the raised exception object.
C2_Claim ==
    (IsRaises /\ RaisedExpected
       /\ \A i \in DOMAIN self._tests : TestReturns(i, raised)) =>
        /\ outcome = Normal
        /\ exc_val(self) = [kind |-> "value", exc |-> raised]

\* C2 restricted to exceptions whose bool() is true.
C2_Truthy ==
    (IsRaises /\ RaisedExpected /\ raised.truthy
       /\ \A i \in DOMAIN self._tests : TestReturns(i, raised)) =>
        /\ outcome = Normal
        /\ exc_val(self) = [kind |-> "value", exc |-> raised]

\* C3 (as claimed): when the block raises an exception that is not of the
\* expected class nor of a subclass, that same exception object leaves the
\* with statement.
C3_Claim == (IsRaises /\ RaisedOther) => outcome = Raise(raised)

\* C3 restricted to exceptions whose bool() is true.
C3_Truthy == (IsRaises /\ RaisedOther /\ raised.truthy) => outcome = Raise(raised)

\* The callbacks __exit__ is to call for exception e according to C4: the
\* registered ones in order, up to and including the first that raises.
RECURSIVE UpToFirstRaise(_, _)
UpToFirstRaise(i, e) ==
    IF i > Len(self._tests) THEN << >>
    ELSE IF ~TestReturns(i, e) THEN <<self._tests[i]>>
    ELSE <<self._tests[i]>> \o UpToFirstRaise(i + 1, e)

\* C4 (as claimed): on an exception of the expected class the registered
\* callbacks are called in registration order up to and including the first
\* that raises; what that callback raises leaves the with statement; the
\* with statement ends normally only when every callback returned.
C4_Claim ==
    (IsRaises /\ RaisedExpected) =>
        /\ calls = UpToFirstRaise(1, raised)
        /\ \A i \in DOMAIN self._tests :
              (~TestReturns(i, raised) /\ \A j \in 1..(i - 1) : TestReturns(j, raised))
                  => outcome = Raise(call_test(self, self._tests[i], raised))
        /\ outcome = Normal => \A i \in DOMAIN self._tests : TestReturns(i, raised)

\* C4 restricted to exceptions whose bool() is true.
C4_Truthy ==
    (IsRaises /\ RaisedExpected /\ raised.truthy) =>
        /\ calls = UpToFirstRaise(1, raised)
        /\ \A i \in DOMAIN self._tests :
              (~TestReturns(i, raised) /\ \A j \in 1..(i - 1) : TestReturns(j, raised))
                  => outcome = Raise(call_test(self, self._tests[i], raised))
        /\ outcome = Normal <=> \A i \in DOMAIN self._tests : TestReturns(i, raised)

\* C5 (as claimed): a read of exc_val before the scope has ended, or after a
\* scope whose block raised nothing, raises RuntimeError.
C5_Claim ==
    (IsRaises /\ read # NoOutcome
       /\ (phase \in {"new", "in"} \/ (phase = "out" /\ raised = None))) =>
        (read.kind = "raise" /\ read.exc.cls = "RuntimeError")

\* C5 for the first scope of a matcher object.
C5_FirstScope ==
    (IsRaises /\ read # NoOutcome /\ scopes <= 1
       /\ (phase \in {"new", "in"} \/ (phase = "out" /\ raised = None))) =>
        (read.kind = "raise" /\ read.exc.cls = "RuntimeError")

\* C6 (as claimed): assert_raises_regex with no further callback, when the
\* block raises an exception of the expected class: without arguments the
\* scope raises AssertionError "<kind> without message"; with a text in
\* which the pattern is not found, AssertionError "<repr of text> does not
\* match <repr of pattern>"; with a text that holds the pattern anywhere,
\* the exception is suppressed.
C6_Claim ==
    (self.kind = "AssertRaisesRegexContext" /\ Len(self._tests) = 1
       /\ RaisedExpected) =>
        /\ raised.args = << >> =>
              /\ IsAssertionError(outcome.exc)
              /\ self.msg_fmt = DefaultFmt =>
                    outcome.exc = AssertionError(self.exception \o " without message")
        /\ raised.args = <<StrV("bar")>> =>
              /\ IsAssertionError(outcome.exc)
              /\ self.msg_fmt = DefaultFmt =>
                    outcome.exc = AssertionError("'bar' does not match 'foo'")
        /\ raised.args = <<StrV("xfoo")>> => outcome = Normal

\* C6 restricted to exceptions whose bool() is true.
C6_Truthy ==
    (self.kind = "AssertRaisesRegexContext" /\ Len(self._tests) = 1
       /\ RaisedExpected /\ raised.truthy) =>
        /\ raised.args = << >> =>
              /\ IsAssertionError(outcome.exc)
              /\ self.msg_fmt = DefaultFmt =>
                    outcome.exc = AssertionError(self.exception \o " without message")
        /\ raised.args = <<StrV("bar")>> =>
              /\ IsAssertionError(outcome.exc)
              /\ self.msg_fmt = DefaultFmt =>
                    outcome.exc = AssertionError("'bar' does not match 'foo'")
        /\ raised.args = <<StrV("xfoo")>> => outcome = Normal

\* C7 (as claimed): assert_raises_errno registers exactly one callback, and
\* with no further callback, when the block raises an exception of the
\* expected class, the with statement ends normally iff the exception's
\* errno is the expected one and else raises AssertionError
\* "wrong errno: <expected> != <actual>".
C7_Claim ==
    self.kind = "AssertRaisesErrnoContext" =>
        /\ Cardinality({i \in DOMAIN self._tests : self._tests[i].fn # "cb"}) = 1
        /\ (Len(self._tests) = 1 /\ RaisedExpected) =>
              /\ outcome = Normal <=> raised.errno = self.expected_errno
              /\ raised.errno # self.expected_errno =>
                    /\ self.msg_fmt \in {DefaultFmt, NamesFmt} =>
                          IsAssertionError(outcome.exc)
                    /\ self.msg_fmt = DefaultFmt =>
                          outcome.exc = AssertionError("wrong errno: "
                              \o repr(self.expected_errno) \o " != "
                              \o repr(raised.errno))

\* C7 restricted to exceptions whose bool() is true.
C7_Truthy ==
    self.kind = "AssertRaisesErrnoContext" =>
        /\ Cardinality({i \in DOMAIN self._tests : self._tests[i].fn # "cb"}) = 1
        /\ (Len(self._tests) = 1 /\ RaisedExpected /\ raised.truthy) =>
              /\ outcome = Normal <=> raised.errno = self.expected_errno
              /\ raised.errno # self.expected_errno =>
                    /\ self.msg_fmt \in {DefaultFmt, NamesFmt} =>
                          IsAssertionError(outcome.exc)
                    /\ self.msg_fmt = DefaultFmt =>
                          outcome.exc = AssertionError("wrong errno: 1 != 2")

\* C8: an assert_succeeds scope raises a new exception iff the block raised
\* an exception of the given class or a subclass, with the default msg_fmt
\* AssertionError "<name> was unexpectedly raised"; a block that raises
\* nothing ends the with statement normally; an exception of another class
\* leaves the with statement as the same object.
C8_Succeeds ==
    (self.kind = "_AssertSucceeds" /\ phase = "out") =>
        /\ raised = None => outcome = Normal
        /\ RaisedOther => outcome = Raise(raised)
        /\ RaisedExpected =>
              /\ outcome.kind = "raise" /\ outcome.exc.id = 0
              /\ self.msg_fmt \in {DefaultFmt, NamesFmt} => IsAssertionError(outcome.exc)
              /\ self.msg_fmt = DefaultFmt =>
                    outcome.exc = AssertionError(self.exception
                                                   \o " was unexpectedly raised")
        /\ IsAssertionError(outcome.exc) => RaisedExpected

C8_Witness ==
    /\ self.kind = "_AssertSucceeds" /\ RaisedExpected
    /\ raised.cls = "KeyError" /\ self.exception = "LookupError"
    /\ ~raised.truthy
    /\ outcome = Raise(AssertionError("LookupError was unexpectedly raised"))

(***************************************************************************)
(* Properties of the advisory-variant matchers.                            *)
(***************************************************************************)
\* The recorded warning is of the expected class or of a subclass and every
\* registered callback returns true for it.
Matches(w, warning) ==
    /\ issubclass(warning.category, w._warning_class)
    /\ \A i \in DOMAIN w._tests : warns_call_test(w, w._tests[i], warning)

NoMatch(w) == ~\E k \in DOMAIN w._warnings : Matches(w, w._warnings[k])

\* C9: when an advisory scope ends, __exit__ raises iff no warning recorded
\* in the scope is of the expected class (or a subclass) with every
\* registered callback true for it, wherever among the records it stands;
\* for assert_warns with the default msg_fmt it raises AssertionError
\* "<class name> not issued"; and __exit__ leaves the records as they are.
C9_NotIssued ==
    /\ [](wend.who # 0 =>
            /\ (wend.outcome.kind = "raise" /\ wend.outcome.exc.id = 0)
                  <=> NoMatch(ctx[wend.who])
            /\ (NoMatch(ctx[wend.who])
                  /\ ctx[wend.who].kind = "AssertWarnsContext"
                  /\ ctx[wend.who]._msg_fmt = DefaultFmt) =>
                    wend.outcome.exc =
                        AssertionError(ctx[wend.who]._warning_class \o " not issued"))
    /\ [][wend'.who # 0 =>
            ctx'[wend'.who]._warnings = ctx[wend'.who]._warnings]_vars

\* A scope with a callback ends normally on two records of which only the
\* second matches.
C9_Witness ==
    /\ wend.who = 1
    /\ ctx[1].kind = "AssertWarnsContext"
    /\ Len(ctx[1]._tests) >= 1
    /\ Len(ctx[1]._warnings) = 2
    /\ ~Matches(ctx[1], ctx[1]._warnings[1])
    /\ Matches(ctx[1], ctx[1]._warnings[2])
    /\ wend.outcome = Normal

\* C10: when an advisory scope has ended, normally or with an
\* AssertionError, the handler and the filters of the warnings module are
\* those from before the scope was entered; no warning issued inside a
\* scope has reached the handler in force outside, and every warning issued
\* outside a scope that the filters in force there let through has reached
\* it exactly once.
C10_Uninstalled ==
    /\ wend.who # 0 =>
          /\ showwarning = ctx[wend.who]._warning_context._showwarning
          /\ filters = ctx[wend.who]._warning_context._filters
    /\ wstack = << >> => (showwarning = 0 /\ filters = ambient)
    /\ delivered = outside

\* After a scope that failed (its only record is of another class), a
\* warning was issued and reached the outer handler, which the recorded
\* warning never did.
C10_Witness ==
    /\ wstack = << >> /\ entered = 1 /\ issued = 2
    /\ ctx[1]._warning_class = "UserWarning"
    /\ Len(ctx[1]._warnings) = 1
    /\ ctx[1]._warnings[1].category = "DeprecationWarning"
    /\ delivered = <<[category |-> "UserWarning", message |-> "xfoo"]>>

\* The matcher whose scope is the innermost open one (0 when none is open).
Innermost == IF wstack = << >> THEN 0 ELSE wstack[Len(wstack)]

\* C11 (as claimed): with scopes of advisory matchers that follow one
\* another or nest, every warning issued is appended to the buffer of the
\* innermost scope open at that moment and to no other buffer (so the buffer
\* of a closed scope never grows), and a scope that is entered starts with
\* an empty buffer.
C11_Claim ==
    [][/\ issued' = issued + 1 =>
            \A i \in MatcherIds :
                IF i = Innermost
                THEN /\ Len(ctx'[i]._warnings) = Len(ctx[i]._warnings) + 1
                     /\ SubSeq(ctx'[i]._warnings, 1, Len(ctx[i]._warnings))
                            = ctx[i]._warnings
                ELSE ctx'[i]._warnings = ctx[i]._warnings
       /\ entered' = entered + 1 =>
            ctx'[wstack'[Len(wstack')]]._warnings = << >>]_vars

\* C11 for the warnings that are recorded at all: a warning is recorded in
\* no buffer but that of the innermost open scope.
C11_Isolated ==
    [][/\ issued' = issued + 1 =>
            \A i \in MatcherIds :
                IF i = Innermost
                THEN /\ Len(ctx'[i]._warnings) <= Len(ctx[i]._warnings) + 1
                     /\ SubSeq(ctx'[i]._warnings, 1, Len(ctx[i]._warnings))
                            = ctx[i]._warnings
                ELSE ctx'[i]._warnings = ctx[i]._warnings
       /\ entered' = entered + 1 =>
            ctx'[wstack'[Len(wstack')]]._warnings = << >>]_vars

\* C12 (as claimed): every warning issued while a scope is open, of whatever
\* category and however many there are, is appended to the buffer of the
\* scope.
C12_Claim ==
    [][(issued' = issued + 1 /\ wstack # << >>) =>
          \E warning \in IssuedWarnings :
              ctx'[1]._warnings = Append(ctx[1]._warnings, warning)]_vars

\* C13 (as claimed): an exception raised by the block of an advisory scope
\* leaves the with statement as the same object, whether or not a matching
\* warning was recorded.
C13_Claim ==
    (wend.who # 0 /\ wend.raised # None) => wend.outcome = Raise(wend.raised)

\* C13 for scopes in which a matching warning was recorded.
C13_Matched ==
    (wend.who # 0 /\ wend.raised # None /\ ~NoMatch(ctx[wend.who])) =>
        wend.outcome = Raise(wend.raised)

\* The texts of the model in which the pattern Regex is found.
Found(text) == text = "xfoo"

\* C14: an assert_warns_regex scope (with no further callback) ends without
\* an exception of its own iff some recorded warning is of the expected
\* class or a subclass and Regex is found somewhere in its text; otherwise
\* __exit__ raises AssertionError "no <class name> matching <repr of
\* pattern> issued" with the default msg_fmt, and pattern is handed to
\* msg_fmt beside msg, exc_type and exc_name.
C14_WarnsRegex ==
    (wend.who # 0 /\ ctx[wend.who].kind = "AssertWarnsRegexContext"
       /\ Len(ctx[wend.who]._tests) = 1) =>
        IF \E k \in DOMAIN ctx[wend.who]._warnings :
              /\ ctx[wend.who]._warnings[k].category
                    \in {ctx[wend.who]._warning_class} \cup
                        (IF ctx[wend.who]._warning_class = "UserWarning"
                         THEN {"MyWarning"} ELSE {})
              /\ Found(ctx[wend.who]._warnings[k].message)
        THEN wend.outcome = with_statement(wend.raised,
                                ExitResult(ctx[wend.who], << >>, None, FALSE))
        ELSE /\ ctx[wend.who]._msg_fmt = DefaultFmt =>
                  wend.outcome = Raise(AssertionError("no "
                      \o ctx[wend.who]._warning_class \o " matching 'foo' issued"))
             /\ ctx[wend.who]._msg_fmt = PatternFmt =>
                  wend.outcome = Raise(AssertionError("no "
                      \o ctx[wend.who]._warning_class \o " matching 'foo' issued;"
                      \o ctx[wend.who]._warning_class \o ";foo"))

\* A scope that expects a UserWarning matching Regex ends normally on a
\* warning of a subclass with the pattern in the middle of its text,
\* recorded after a UserWarning whose text does not hold the pattern.
C14_Witness ==
    /\ wend.who = 1 /\ ctx[1].kind = "AssertWarnsRegexContext"
    /\ Len(ctx[1]._tests) = 1
    /\ ctx[1]._warnings = <<[category |-> "UserWarning", message |-> "bar"],
                            [category |-> "MyWarning", message |-> "xfoo"]>>
    /\ wend.outcome = Normal

(***************************************************************************)
(* The plain assertion functions.  Each is an operator that yields the     *)
(* exception the call raises, or None when the call returns.               *)
(***************************************************************************)
\* raise AssertionError(msg) with a formatted message, unless formatting
\* itself raised
raise_formatted(r) ==
    IF r.err # "" THEN NewExc(r.err, <<StrV(r.s)>>) ELSE AssertionError(r.s)

\* dict.keys() as a set, and d[k]
keys(d) == {d.v[i][1] : i \in DOMAIN d.v}
getitem(d, k) == d.v[CHOOSE i \in DOMAIN d.v : d.v[i][1] = k][2]

\* first == second: dicts are equal when they have the same keys with equal
\* values, in whatever order
RECURSIVE py_eq(_, _)
py_eq(a, b) ==
    IF a.t = "dict" /\ b.t = "dict"
    THEN /\ keys(a) = keys(b)
         /\ \A k \in keys(a) : py_eq(getitem(a, k), getitem(b, k))
    ELSE a = b

\* The keys of the model, in the order of their reprs ("'a'" < "'b'" <
\* "'c'"), and sorted(repr(k) for k in ks) from the i-th of them on.
KeyOrder == <<StrV("a"), StrV("b"), StrV("c")>>

RECURSIVE sorted_reprs(_, _)
sorted_reprs(ks, i) ==
    IF i > Len(KeyOrder) THEN << >>
    ELSE (IF KeyOrder[i] \in ks THEN <<repr(KeyOrder[i])>> ELSE << >>)
         \o sorted_reprs(ks, i + 1)

\* list(first_keys - second_keys), handed to the template (in sorted order)
key_list(ks) ==
    ListV(SelectSeq(KeyOrder, LAMBDA k : k \in ks))

\* The default message about the keys ks: what says "key" or "extra key",
\* where says " missing from right dict" or " in right dict".
keys_msg(ks, what, where) ==
    IF Cardinality(ks) = 1
    THEN what \o " " \o repr(CHOOSE k \in ks : TRUE) \o where
    ELSE what \o "s " \o join_from(sorted_reprs(ks, 1), 1) \o where

\* The message as it is, no brace doubled.
escape_none(s) == s

\* msg.replace("{", "{{").replace("}", "}}")
RECURSIVE escape(_)
escape(s) ==
    IF brace_from(s, 1) > Len(s) THEN s
    ELSE SubSeq(s, 1, brace_from(s, 1))
         \o SubSeq(s, brace_from(s, 1), brace_from(s, 1))
         \o escape(SubSeq(s, brace_from(s, 1) + 1, Len(s)))

\* The default message of the value of key differing
differs_msg(key, first_value, second_value) ==
    "key '" \o str(key) \o "' differs: " \o repr(first_value) \o " != "
        \o repr(second_value)

\* The message about key: value_msg_fmt.format(...) unless value_msg_fmt is
\* empty
value_msg(first, second, key, value_msg_fmt) ==
    IF value_msg_fmt = ""
    THEN FmtOk(differs_msg(key, getitem(first, key), getitem(second, key)))
    ELSE format(value_msg_fmt,
             [msg |-> StrV(differs_msg(key, getitem(first, key),
                                       getitem(second, key))),
              first |-> first, second |-> second, key |-> key,
              first_value |-> getitem(first, key),
              second_value |-> getitem(second, key)])

RECURSIVE assert_equal(_, _, _)
RECURSIVE assert_dict_equal(_, _, _, _)
RECURSIVE dict_values_from(_, _, _, _)
RECURSIVE dict_values_rest(_, _, _, _, _)
RECURSIVE dict_value(_, _, _, _)

\* assert_equal(first_value, second_value, msg_fmt=msg) with the escaped
\* message r, unless formatting the message raised
dict_value(first, second, key, r) ==
    IF r.err # "" THEN NewExc(r.err, <<StrV(r.s)>>)
    ELSE assert_equal(getitem(first, key), getitem(second, key), escape(r.s))

\* for key in first, from the i-th key on: the first exception raised
dict_values_rest(first, second, value_msg_fmt, i, raised_) ==
    IF raised_ # None THEN raised_
    ELSE dict_values_from(first, second, value_msg_fmt, i + 1)

dict_values_from(first, second, value_msg_fmt, i) ==
    IF i > Len(first.v) THEN None
    ELSE dict_values_rest(first, second, value_msg_fmt, i,
             dict_value(first, second, first.v[i][1],
                 value_msg(first, second, first.v[i][1], value_msg_fmt)))

\* The failure of assert_dict_equal about the keys
dict_equal_keys(first, second, key_msg_fmt, msg) ==
    IF key_msg_fmt = "" THEN AssertionError(msg)
    ELSE raise_formatted(format(key_msg_fmt,
             [msg |-> StrV(msg), first |-> first, second |-> second,
              missing_keys |-> key_list(keys(first) \ keys(second)),
              extra_keys |-> key_list(keys(second) \ keys(first))]))

assert_dict_equal(first, second, key_msg_fmt, value_msg_fmt) ==
    IF keys(first) \ keys(second) # {}
    THEN dict_equal_keys(first, second, key_msg_fmt,
             keys_msg(keys(first) \ keys(second), "key",
                      " missing from right dict"))
    ELSE IF keys(second) \ keys(first) # {}
    THEN dict_equal_keys(first, second, key_msg_fmt,
             keys_msg(keys(second) \ keys(first), "extra key",
                      " in right dict"))
    ELSE dict_values_from(first, second, value_msg_fmt, 1)

assert_equal(first, second, msg_fmt) ==
    IF first.t = "dict" /\ second.t = "dict"
    THEN assert_dict_equal(first, second, msg_fmt, DefaultFmt)
    ELSE IF ~py_eq(first, second)
    THEN fail_format(msg_fmt,
             [msg |-> StrV(repr(first) \o " != " \o repr(second)),
              first |-> first, second |-> second])
    ELSE None

\* The failure of assert_dict_superset about the keys
dict_superset_keys(first, second, key_msg_fmt, msg) ==
    IF key_msg_fmt = "" THEN AssertionError(msg)
    ELSE raise_formatted(format(key_msg_fmt,
             [msg |-> StrV(msg), first |-> first, second |-> second,
              missing_keys |-> key_list(keys(first) \ keys(second))]))

assert_dict_superset(first, second, key_msg_fmt, value_msg_fmt) ==
    IF keys(first) \ keys(second) # {}
    THEN dict_superset_keys(first, second, key_msg_fmt,
             keys_msg(keys(first) \ keys(second), "key",
                      " missing from right dict"))
    ELSE dict_values_from(first, second, value_msg_fmt, 1)

(***************************************************************************)
(* The assertions about one expression.  bool(expr) is the truth value of  *)
(* expr; "is" is modelled on None, True and False, which are single        *)
(* objects.                                                                *)
(***************************************************************************)
bool(v) ==
    CASE v.t = "none" -> FALSE
      [] v.t = "bool" -> v.v
      [] v.t = "int" -> v.v # 0
      [] v.t = "str" -> v.v # ""
      [] v.t \in {"list", "dict"} -> Len(v.v) # 0
      [] OTHER -> TRUE

\* The keyword arguments without the message.
expr_kwargs_unnamed(msg, expr) == [expr |-> expr]

expr_kwargs(msg, expr) == [msg |-> StrV(msg), expr |-> expr]

assert_true(expr, msg_fmt) ==
    IF ~bool(expr)
    THEN fail_format(msg_fmt, expr_kwargs(repr(expr) \o " is not truthy", expr))
    ELSE None

assert_false(expr, msg_fmt) ==
    IF bool(expr)
    THEN fail_format(msg_fmt, expr_kwargs(repr(expr) \o " is not falsy", expr))
    ELSE None

assert_boolean_true(expr, msg_fmt) ==
    IF expr # BoolV(TRUE)
    THEN fail_format(msg_fmt, expr_kwargs(repr(expr) \o " is not True", expr))
    ELSE None

assert_boolean_false(expr, msg_fmt) ==
    IF expr # BoolV(FALSE)
    THEN fail_format(msg_fmt, expr_kwargs(repr(expr) \o " is not False", expr))
    ELSE None

assert_is_none(expr, msg_fmt) ==
    IF expr # None
    THEN fail_format(msg_fmt, expr_kwargs(repr(expr) \o " is not None", expr))
    ELSE None

assert_is_not_none(expr, msg_fmt) ==
    IF expr = None
    THEN fail_format(msg_fmt, expr_kwargs("expression is None", expr))
    ELSE None

(***************************************************************************)
(* The assertions about two values.  The comparisons are modelled on       *)
(* ints, "in" on an int and a list, "is" on None, True and False.          *)
(***************************************************************************)
pair_kwargs(msg, first, second) ==
    [msg |-> StrV(msg), first |-> first, second |-> second]

\* first in second, for a list second
contains(second, first) == \E i \in DOMAIN second.v : py_eq(second.v[i], first)

assert_not_equal(first, second, msg_fmt) ==
    IF py_eq(first, second)
    THEN fail_format(msg_fmt,
             pair_kwargs(repr(first) \o " == " \o repr(second), first, second))
    ELSE None

assert_less(first, second, msg_fmt) ==
    IF ~(first.v < second.v)
    THEN fail_format(msg_fmt,
             pair_kwargs(repr(first) \o " is not less than " \o repr(second),
                         first, second))
    ELSE None

assert_less_equal(first, second, msg_fmt) ==
    IF ~(first.v <= second.v)
    THEN fail_format(msg_fmt,
             pair_kwargs(repr(first) \o " is not less than or equal to "
                             \o repr(second), first, second))
    ELSE None

assert_greater(first, second, msg_fmt) ==
    IF ~(first.v > second.v)
    THEN fail_format(msg_fmt,
             pair_kwargs(repr(first) \o " is not greater than " \o repr(second),
                         first, second))
    ELSE None

assert_greater_equal(first, second, msg_fmt) ==
    IF ~(first.v >= second.v)
    THEN fail_format(msg_fmt,
             pair_kwargs(repr(first) \o " is not greater than or equal to "
                             \o repr(second), first, second))
    ELSE None

assert_is(first, second, msg_fmt) ==
    IF first # second
    THEN fail_format(msg_fmt,
             pair_kwargs(repr(first) \o " is not " \o repr(second),
                         first, second))
    ELSE None

assert_is_not(first, second, msg_fmt) ==
    IF first = second
    THEN fail_format(msg_fmt,
             pair_kwargs("both arguments refer to " \o repr(first),
                         first, second))
    ELSE None

assert_in(first, second, msg_fmt) ==
    IF ~contains(second, first)
    THEN fail_format(msg_fmt,
             pair_kwargs(repr(first) \o " not in " \o repr(second),
                         first, second))
    ELSE None

assert_not_in(first, second, msg_fmt) ==
    IF contains(second, first)
    THEN fail_format(msg_fmt,
             pair_kwargs(repr(first) \o " is in " \o repr(second),
                         first, second))
    ELSE None

(***************************************************************************)
(* assert_count_equal.  Iterating a list yields its items, iterating a str *)
(* its characters.                                                         *)
(***************************************************************************)
iter(v) ==
    IF v.t = "str" THEN [i \in 1..Len(v.v) |-> StrV(SubSeq(v.v, i, i))]
    ELSE v.v

\* The first index of an item of the list that equals item, or 0.
index(list, item) ==
    IF \E i \in DOMAIN list : py_eq(list[i], item)
    THEN CHOOSE i \in DOMAIN list :
            /\ py_eq(list[i], item)
            /\ \A j \in 1..(i - 1) : ~py_eq(list[j], item)
    ELSE 0

\* The list without every item that equals item.
remove_all(list, item) == SelectSeq(list, LAMBDA x : ~py_eq(x, item))

\* list.remove(item): the list without the first item that equals item
remove(list, item) ==
    SubSeq(list, 1, index(list, item) - 1)
        \o SubSeq(list, index(list, item) + 1, Len(list))

\* compare(), from the i-th item of sequence1 on: <<missing1, missing2>>
RECURSIVE compare_from(_, _, _, _)
compare_from(sequence1, i, missing1, missing2) ==
    IF i > Len(sequence1) THEN <<missing1, missing2>>
    ELSE IF index(missing1, sequence1[i]) # 0
    THEN compare_from(sequence1, i + 1, remove(missing1, sequence1[i]),
                      missing2)
    ELSE compare_from(sequence1, i + 1, missing1,
                      Append(missing2, sequence1[i]))

compare(sequence1, sequence2) ==
    compare_from(iter(sequence1), 1, iter(sequence2), << >>)

reprs(list) == [i \in DOMAIN list |-> repr(list[i])]

build_message(missing_from_1, missing_from_2) ==
    (IF missing_from_1 # << >>
     THEN "missing from sequence 1: " \o join_from(reprs(missing_from_1), 1)
     ELSE "")
    \o (IF missing_from_1 # << >> /\ missing_from_2 # << >> THEN "; " ELSE "")
    \o (IF missing_from_2 # << >>
        THEN "missing from sequence 2: " \o join_from(reprs(missing_from_2), 1)
        ELSE "")

count_equal_missing(sequence1, sequence2, msg_fmt, missing) ==
    IF missing[1] # << >> \/ missing[2] # << >>
    THEN fail_format(msg_fmt,
             [msg |-> StrV(build_message(missing[1], missing[2])),
              first |-> sequence1, second |-> sequence2])
    ELSE None

assert_count_equal(sequence1, sequence2, msg_fmt) ==
    count_equal_missing(sequence1, sequence2, msg_fmt,
                        compare(sequence1, sequence2))

(***************************************************************************)
(* assert_almost_equal and assert_not_almost_equal on ints and on the      *)
(* floats inf, -inf and nan.  The arithmetic is that of IEEE 754: inf -    *)
(* inf and every operation on nan yield nan, and every comparison with nan *)
(* is false.  round(x, places) of an int, of inf and of nan is x.          *)
(***************************************************************************)
Inf == FloatV("inf")
NegInf == FloatV("-inf")
NaN == FloatV("nan")

neg(a) ==
    IF a.t = "int" THEN IntV(0 - a.v)
    ELSE IF a = Inf THEN NegInf
    ELSE IF a = NegInf THEN Inf
    ELSE NaN

\* second - first
sub(second, first) ==
    IF second.t = "int" /\ first.t = "int" THEN IntV(second.v - first.v)
    ELSE IF second = NaN \/ first = NaN \/ second = first THEN NaN
    ELSE IF second.t = "float" THEN second
    ELSE neg(first)

abs(a) ==
    IF a.t = "int" THEN IntV(IF a.v < 0 THEN 0 - a.v ELSE a.v)
    ELSE IF a = NegInf THEN Inf
    ELSE a

\* diff < delta and diff >= delta, for diff >= 0 or nan and an int delta
lt(diff, delta) == diff.t = "int" /\ diff.v < delta.v
ge(diff, delta) == IF diff.t = "int" THEN diff.v >= delta.v ELSE diff = Inf

\* places after "if places is None: places = 7"
DefaultPlaces == 7
places_or_default(places) == IF places = None THEN IntV(DefaultPlaces) ELSE places

almost_kwargs(msg, first, second, places, delta) ==
    [msg |-> StrV(msg), first |-> first, second |-> second,
     places |-> places, delta |-> delta]

detail_msg(places, delta) ==
    IF delta # None THEN "with delta=" \o str(delta)
    ELSE "within " \o str(places_or_default(places)) \o " places"

\* The failure of either function, op being "!=" or "=="
almost_fail(first, second, msg_fmt, places, delta, op) ==
    fail_format(msg_fmt,
        almost_kwargs(repr(first) \o " " \o op \o " " \o repr(second) \o " "
                          \o detail_msg(places, delta),
                      first, second,
                      (IF delta # None THEN places
                       ELSE places_or_default(places)),
                      delta))

\* The checks of the arguments with delta checked first.
almost_arguments_delta_first(places, delta) ==
    IF delta # None /\ delta.v <= 0
    THEN NewExc("ValueError", <<StrV("delta must be larger than 0")>>)
    ELSE IF delta # None /\ places # None
    THEN NewExc("TypeError",
                <<StrV("'places' and 'delta' are mutually exclusive")>>)
    ELSE None

\* The exception the checks of the arguments raise, or None.
almost_arguments(places, delta) ==
    IF delta # None /\ places # None
    THEN NewExc("TypeError",
                <<StrV("'places' and 'delta' are mutually exclusive")>>)
    ELSE IF delta # None /\ delta.v <= 0
    THEN NewExc("ValueError", <<StrV("delta must be larger than 0")>>)
    ELSE None

assert_almost_equal(first, second, msg_fmt, places, delta) ==
    IF almost_arguments(places, delta) # None
    THEN almost_arguments(places, delta)
    ELSE IF (IF delta # None THEN lt(abs(sub(second, first)), delta)
             ELSE sub(second, first) = IntV(0))
    THEN None
    ELSE almost_fail(first, second, msg_fmt, places, delta, "!=")

assert_not_almost_equal(first, second, msg_fmt, places, delta) ==
    IF almost_arguments(places, delta) # None
    THEN almost_arguments(places, delta)
    ELSE IF (IF delta # None THEN ge(abs(sub(second, first)), delta)
             ELSE sub(second, first) # IntV(0))
    THEN None
    ELSE almost_fail(first, second, msg_fmt, places, delta, "==")

(***************************************************************************)
(* The calls of the model.  A template argument is None when the caller    *)
(* leaves it out, and the function's default, "{msg}", is used.            *)
(***************************************************************************)
default(msg_fmt) == IF msg_fmt = None THEN DefaultFmt ELSE msg_fmt.v

Outcome(e) == IF e = None THEN Normal ELSE Raise(e)

MaxKeys == 2

NopeFmt == "{msg}{nope}"
\* The values of a dict: numbers, and under key 'a' also dicts.
NestedDicts ==
    {DictV(<<<<StrV("x"), IntV(1)>>>>),
     DictV(<<<<StrV("x"), IntV(2)>>>>),
     DictV(<<<<StrV("x"), IntV(1)>>, <<StrV("y"), IntV(2)>>>>)}
Numbers == {IntV(1), IntV(2)}
DictItems ==
    {<<k, v>> : k \in {StrV("a"), StrV("b"), StrV("c")}, v \in Numbers}
    \cup {<<StrV("a"), v>> : v \in NestedDicts}
\* The dicts of at most MaxKeys keys, in every insertion order, and those
\* among them whose keys are inserted in the order of KeyOrder.
Dicts ==
    {DictV(items) : items \in
        UNION {{s \in [1..n -> DictItems] :
                   \A i, j \in 1..n : i # j => s[i][1] # s[j][1]} :
               n \in 0..MaxKeys}}
Rank(k) == CHOOSE i \in DOMAIN KeyOrder : KeyOrder[i] = k
OrderedDicts ==
    {d \in Dicts : \A i, j \in DOMAIN d.v :
                       i < j => Rank(d.v[i][1]) < Rank(d.v[j][1])}
DictFmts == {None, StrV(DefaultFmt), StrV(NopeFmt)}
EqualFmts == DictFmts \cup {StrV("{first} <> {second}: {msg}")}

\* Dicts of one key whose key and values hold braces or are empty, and
\* templates for the message about a value.
BraceKeys == {StrV("a"), StrV(""), StrV("{k}"), StrV("}")}
BraceValues == {IntV(1), StrV("{msg}"), StrV("}{"), StrV("{{")}
ValueFmts ==
    {None, StrV("{key}"), StrV("{key}={first_value!r}|{second_value!r}"),
     StrV("{msg} {{}}")}
BraceCalls ==
    {[fn |-> f, first |-> DictV(<<<<k, v>>>>), second |-> DictV(<<<<k, w>>>>),
      key_msg_fmt |-> None, value_msg_fmt |-> m] :
        f \in {"assert_dict_equal", "assert_dict_superset"},
        k \in BraceKeys, v \in BraceValues, w \in BraceValues,
        m \in ValueFmts}

DictCalls ==
    {[fn |-> f, first |-> a, second |-> b, key_msg_fmt |-> m,
      value_msg_fmt |-> m] :
        f \in {"assert_dict_equal", "assert_dict_superset"},
        a \in Dicts, b \in OrderedDicts, m \in DictFmts}
    \cup BraceCalls
EqualCalls ==
    {[fn |-> "assert_equal", first |-> a, second |-> b, msg_fmt |-> m] :
        a \in Numbers \cup NestedDicts, b \in Numbers \cup NestedDicts,
        m \in EqualFmts}

\* Templates that name what no assertion supplies: a name, an attribute of
\* the message, a positional argument.
AttrFmt == "{msg.nope}"
IndexFmt == "{0}"
BadFmts == {StrV(NopeFmt), StrV(AttrFmt), StrV(IndexFmt)}
Fmts == {None, StrV(DefaultFmt)} \cup BadFmts

ExprFns ==
    {"assert_true", "assert_false", "assert_boolean_true",
     "assert_boolean_false", "assert_is_none", "assert_is_not_none"}
Exprs == {None, BoolV(TRUE), BoolV(FALSE), IntV(0), IntV(1), StrV(""),
          StrV("a"), ListV(<< >>)}
ExprCalls ==
    {[fn |-> f, expr |-> e, msg_fmt |-> m] :
        f \in ExprFns, e \in Exprs,
        m \in Fmts \cup {StrV("{expr!r}: {msg}")}}

CompareFns ==
    {"assert_not_equal", "assert_less", "assert_less_equal", "assert_greater",
     "assert_greater_equal"}
IsFns == {"assert_is", "assert_is_not"}
InFns == {"assert_in", "assert_not_in"}
Singletons == {None, BoolV(TRUE), BoolV(FALSE)}
Lists == {ListV(<< >>), ListV(<<IntV(1)>>), ListV(<<IntV(2), IntV(1)>>)}
PairFmts == Fmts \cup {StrV("{first} <> {second}: {msg}")}
PairCalls ==
    {[fn |-> f, first |-> a, second |-> b, msg_fmt |-> m] :
        f \in CompareFns, a \in Numbers, b \in Numbers, m \in PairFmts}
    \cup {[fn |-> f, first |-> a, second |-> b, msg_fmt |-> m] :
             f \in IsFns, a \in Singletons, b \in Singletons, m \in PairFmts}
    \cup {[fn |-> f, first |-> a, second |-> b, msg_fmt |-> m] :
             f \in InFns, a \in Numbers, b \in Lists, m \in PairFmts}

\* The sequences of at most MaxItems numbers, and strs and lists of the
\* same characters.
MaxItems == 3
Iterables ==
    {ListV(items) : items \in UNION {[1..n -> Numbers] : n \in 0..MaxItems}}
    \cup {StrV("ab"), StrV("aab"),
          ListV(<<StrV("b"), StrV("a")>>),
          ListV(<<StrV("a"), StrV("b"), StrV("a")>>)}
CountEqualCalls ==
    {[fn |-> "assert_count_equal", first |-> a, second |-> b, msg_fmt |-> m] :
        a \in Iterables, b \in Iterables, m \in DictFmts}

\* Numbers and deltas of assert_almost_equal: delta is None when the
\* caller leaves it out, and so is places.
MaxNumber == 3
AlmostNumbers == {IntV(n) : n \in 0..MaxNumber} \cup {Inf, NegInf, NaN}
Deltas == {None, IntV(0 - 1), IntV(0), IntV(1), IntV(2)}
Places == {None, IntV(DefaultPlaces)}
AlmostFmts == {None, StrV(DefaultFmt), StrV(NopeFmt),
               StrV("{places} {delta}: {msg}")}
AlmostCalls ==
    {[fn |-> f, first |-> a, second |-> b, msg_fmt |-> m, places |-> p,
      delta |-> d] :
        f \in {"assert_almost_equal", "assert_not_almost_equal"},
        a \in AlmostNumbers, b \in AlmostNumbers, m \in AlmostFmts,
        p \in Places, d \in Deltas}

Calls ==
    DictCalls \cup EqualCalls \cup ExprCalls \cup PairCalls
        \cup CountEqualCalls \cup AlmostCalls

CallInit ==
    /\ self = assert_raises("KeyError", DefaultFmt)
    /\ RInit
    /\ ctx = [i \in MatcherIds |-> assert_warns("UserWarning", DefaultFmt)]
    /\ ambient = << >>
    /\ WInit
    /\ call \in Calls
    /\ result = NoOutcome

\* The call is made and ends by returning or raising e.
Return(e) ==
    /\ result = NoOutcome
    /\ result' = Outcome(e)
    /\ UNCHANGED <<call, rvars, wvars>>

CallDictEqual ==
    /\ call.fn = "assert_dict_equal"
    /\ Return(assert_dict_equal(call.first, call.second,
                                default(call.key_msg_fmt),
                                default(call.value_msg_fmt)))

CallDictSuperset ==
    /\ call.fn = "assert_dict_superset"
    /\ Return(assert_dict_superset(call.first, call.second,
                                   default(call.key_msg_fmt),
                                   default(call.value_msg_fmt)))

CallEqual ==
    /\ call.fn = "assert_equal"
    /\ Return(assert_equal(call.first, call.second, default(call.msg_fmt)))

\* The call of one of the assertions about one expression
call_expr(fn, expr, msg_fmt) ==
    CASE fn = "assert_true" -> assert_true(expr, msg_fmt)
      [] fn = "assert_false" -> assert_false(expr, msg_fmt)
      [] fn = "assert_boolean_true" -> assert_boolean_true(expr, msg_fmt)
      [] fn = "assert_boolean_false" -> assert_boolean_false(expr, msg_fmt)
      [] fn = "assert_is_none" -> assert_is_none(expr, msg_fmt)
      [] fn = "assert_is_not_none" -> assert_is_not_none(expr, msg_fmt)

\* The call of one of the assertions about two values
call_pair(fn, first, second, msg_fmt) ==
    CASE fn = "assert_not_equal" -> assert_not_equal(first, second, msg_fmt)
      [] fn = "assert_less" -> assert_less(first, second, msg_fmt)
      [] fn = "assert_less_equal" -> assert_less_equal(first, second, msg_fmt)
      [] fn = "assert_greater" -> assert_greater(first, second, msg_fmt)
      [] fn = "assert_greater_equal" ->
             assert_greater_equal(first, second, msg_fmt)
      [] fn = "assert_is" -> assert_is(first, second, msg_fmt)
      [] fn = "assert_is_not" -> assert_is_not(first, second, msg_fmt)
      [] fn = "assert_in" -> assert_in(first, second, msg_fmt)
      [] fn = "assert_not_in" -> assert_not_in(first, second, msg_fmt)

CallExpr ==
    /\ call.fn \in ExprFns
    /\ Return(call_expr(call.fn, call.expr, default(call.msg_fmt)))

CallPair ==
    /\ call.fn \in CompareFns \cup IsFns \cup InFns
    /\ Return(call_pair(call.fn, call.first, call.second,
                        default(call.msg_fmt)))

CallCountEqual ==
    /\ call.fn = "assert_count_equal"
    /\ Return(assert_count_equal(call.first, call.second,
                                 default(call.msg_fmt)))

CallAlmostEqual ==
    /\ call.fn = "assert_almost_equal"
    /\ Return(assert_almost_equal(call.first, call.second,
                                  default(call.msg_fmt), call.places,
                                  call.delta))

CallNotAlmostEqual ==
    /\ call.fn = "assert_not_almost_equal"
    /\ Return(assert_not_almost_equal(call.first, call.second,
                                      default(call.msg_fmt), call.places,
                                      call.delta))

CallNext ==
    \/ CallDictEqual
    \/ CallDictSuperset
    \/ CallEqual
    \/ CallExpr
    \/ CallPair
    \/ CallCountEqual
    \/ CallAlmostEqual
    \/ CallNotAlmostEqual

SpecCall == CallInit /\ [][CallNext]_vars

(***************************************************************************)
(* Properties of the plain assertion functions.                            *)
(***************************************************************************)
Called(fn) == call.fn = fn /\ result # NoOutcome
\* The call uses the default templates.
DefaultTemplates ==
    /\ default(call.key_msg_fmt) = DefaultFmt
    /\ default(call.value_msg_fmt) = DefaultFmt

\* Two values are equal: dicts when they have the same keys with equal
\* values, other values when they are the same.
RECURSIVE Equal(_, _)
Equal(a, b) ==
    IF a.t = "dict" /\ b.t = "dict"
    THEN /\ keys(a) = keys(b)
         /\ \A k \in keys(a) : Equal(getitem(a, k), getitem(b, k))
    ELSE a = b

\* The keys of first whose values in first and second differ.
Differing(first, second) ==
    {k \in keys(first) \cap keys(second) :
        ~Equal(getitem(first, k), getitem(second, k))}

\* C17 (as claimed): assert_dict_equal returns iff both dicts have the same
\* keys with equal values; otherwise it raises AssertionError about the
\* keys of first missing from second if there are any, else about the keys
\* of second missing from first if there are any, else "key K differs: V1
\* != V2" for a key K whose values V1 in first and V2 in second differ.
C17_Claim ==
    (Called("assert_dict_equal") /\ DefaultTemplates) =>
        /\ result = Normal <=> Equal(call.first, call.second)
        /\ keys(call.first) \ keys(call.second) # {} =>
              result = Raise(AssertionError(
                  keys_msg(keys(call.first) \ keys(call.second), "key",
                           " missing from right dict")))
        /\ (keys(call.first) \ keys(call.second) = {}
              /\ keys(call.second) \ keys(call.first) # {}) =>
              result = Raise(AssertionError(
                  keys_msg(keys(call.second) \ keys(call.first), "extra key",
                           " in right dict")))
        /\ (keys(call.first) = keys(call.second)
              /\ Differing(call.first, call.second) # {}) =>
              \E k \in Differing(call.first, call.second) :
                  result = Raise(AssertionError(
                      differs_msg(k, getitem(call.first, k),
                                  getitem(call.second, k))))

\* C17 for dicts in which no key has a dict as its value on both sides.
C17_Flat ==
    (Called("assert_dict_equal") /\ DefaultTemplates
       /\ \A k \in keys(call.first) \cap keys(call.second) :
             ~(getitem(call.first, k).t = "dict"
               /\ getitem(call.second, k).t = "dict")) =>
        /\ result = Normal <=> Equal(call.first, call.second)
        /\ keys(call.first) \ keys(call.second) # {} =>
              result = Raise(AssertionError(
                  keys_msg(keys(call.first) \ keys(call.second), "key",
                           " missing from right dict")))
        /\ (keys(call.first) \ keys(call.second) = {}
              /\ keys(call.second) \ keys(call.first) # {}) =>
              result = Raise(AssertionError(
                  keys_msg(keys(call.second) \ keys(call.first), "extra key",
                           " in right dict")))
        /\ (keys(call.first) = keys(call.second)
              /\ Differing(call.first, call.second) # {}) =>
              \E k \in Differing(call.first, call.second) :
                  result = Raise(AssertionError(
                      differs_msg(k, getitem(call.first, k),
                                  getitem(call.second, k))))

\* second is a superset of first: it has every key of first, with an equal
\* value or, when both values are dicts, with a superset of the value.
RECURSIVE Superset(_, _)
Superset(first, second) ==
    /\ keys(first) \subseteq keys(second)
    /\ \A k \in keys(first) :
          IF getitem(first, k).t = "dict" /\ getitem(second, k).t = "dict"
          THEN Superset(getitem(first, k), getitem(second, k))
          ELSE getitem(first, k) = getitem(second, k)

\* C18 (as claimed): assert_dict_superset returns iff second is a superset
\* of first, so that further keys in second, also inside the dicts that are
\* values, never make it raise.
C18_Claim ==
    (Called("assert_dict_superset") /\ DefaultTemplates) =>
        (result = Normal <=> Superset(call.first, call.second))

\* C18 for dicts in which no key has a dict as its value on both sides.
C18_Flat ==
    (Called("assert_dict_superset") /\ DefaultTemplates
       /\ \A k \in keys(call.first) \cap keys(call.second) :
             ~(getitem(call.first, k).t = "dict"
               /\ getitem(call.second, k).t = "dict")) =>
        (result = Normal <=> Superset(call.first, call.second))

(***************************************************************************)
(* Properties of the message templates.                                    *)
(***************************************************************************)
TemplateFields == {"msg_fmt", "key_msg_fmt", "value_msg_fmt"}

\* The exception call c raises, or None: what the action of c.fn computes.
call_raises(c) ==
    CASE c.fn = "assert_dict_equal" ->
             assert_dict_equal(c.first, c.second, default(c.key_msg_fmt),
                               default(c.value_msg_fmt))
      [] c.fn = "assert_dict_superset" ->
             assert_dict_superset(c.first, c.second, default(c.key_msg_fmt),
                                  default(c.value_msg_fmt))
      [] c.fn = "assert_equal" ->
             assert_equal(c.first, c.second, default(c.msg_fmt))
      [] c.fn \in ExprFns -> call_expr(c.fn, c.expr, default(c.msg_fmt))
      [] c.fn \in CompareFns \cup IsFns \cup InFns ->
             call_pair(c.fn, c.first, c.second, default(c.msg_fmt))
      [] c.fn = "assert_count_equal" ->
             assert_count_equal(c.first, c.second, default(c.msg_fmt))
      [] c.fn = "assert_almost_equal" ->
             assert_almost_equal(c.first, c.second, default(c.msg_fmt),
                                 c.places, c.delta)
      [] c.fn = "assert_not_almost_equal" ->
             assert_not_almost_equal(c.first, c.second, default(c.msg_fmt),
                                     c.places, c.delta)

\* Call c with template t passed for every template parameter.
with_templates(c, t) ==
    [f \in DOMAIN c |-> IF f \in TemplateFields THEN t ELSE c[f]]

\* The caller of c leaves out every template.
Omitted(c) == \A f \in DOMAIN c \cap TemplateFields : c[f] = None

FormatError(t) ==
    CASE t = StrV(NopeFmt) -> "KeyError"
      [] t = StrV(AttrFmt) -> "AttributeError"
      [] t = StrV(IndexFmt) -> "IndexError"

\* Call c would fail, with an AssertionError, with the templates left out.
Fails(c) ==
    IF call_raises(with_templates(c, None)) = None THEN FALSE
    ELSE call_raises(with_templates(c, None)).cls = "AssertionError"

C16_Claim ==
    \A t \in BadFmts :
        (result # NoOutcome /\ call = with_templates(call, t) /\ Fails(call))
            => (result.kind = "raise" /\ result.exc.cls = FormatError(t))

\* C16 for every call but assert_equal on two dicts.
C16_NotDicts ==
    \A t \in BadFmts :
        (result # NoOutcome /\ call = with_templates(call, t) /\ Fails(call)
           /\ ~(call.fn = "assert_equal" /\ call.first.t = "dict"
                /\ call.second.t = "dict"))
            => (result.kind = "raise" /\ result.exc.cls = FormatError(t))

(***************************************************************************)
(* Properties of assert_count_equal.                                       *)
(***************************************************************************)
\* How often item x occurs among the items.
Count(items, x) == Cardinality({i \in DOMAIN items : items[i] = x})

\* items holds exactly the multiset difference a minus b, in any order.
IsDifference(items, a, b) ==
    \A x \in {a[i] : i \in DOMAIN a} \cup {b[i] : i \in DOMAIN b}
             \cup {items[i] : i \in DOMAIN items} :
        Count(items, x) =
            (IF Count(a, x) > Count(b, x) THEN Count(a, x) - Count(b, x)
             ELSE 0)

\* The two iterables hold the same items as often.
SameItems(a, b) ==
    \A x \in {a[i] : i \in DOMAIN a} \cup {b[i] : i \in DOMAIN b} :
        Count(a, x) = Count(b, x)

\* C19: assert_count_equal returns iff the two iterables hold the same
\* items with the same multiplicities, whatever their order and container
\* type; the two lists it computes are exactly the multiset differences
\* sequence2 minus sequence1 and sequence1 minus sequence2, and when it
\* fails the message lists the first under "missing from sequence 1" and
\* the second under "missing from sequence 2".
C19_CountEqual ==
    (Called("assert_count_equal") /\ default(call.msg_fmt) = DefaultFmt) =>
        /\ result = Normal <=> SameItems(iter(call.first), iter(call.second))
        /\ IsDifference(compare(call.first, call.second)[1],
                        iter(call.second), iter(call.first))
        /\ IsDifference(compare(call.first, call.second)[2],
                        iter(call.first), iter(call.second))
        /\ result # Normal =>
              result = Raise(AssertionError(
                  build_message(compare(call.first, call.second)[1],
                                compare(call.first, call.second)[2])))

\* A duplicate present in the first sequence only is reported, together
\* with an item of the second sequence only.
C19_Witness ==
    /\ Called("assert_count_equal")
    /\ call.first = ListV(<<IntV(1), IntV(1)>>)
    /\ call.second = ListV(<<IntV(2), IntV(1)>>)
    /\ call.msg_fmt = None
    /\ result = Raise(AssertionError(
           "missing from sequence 1: 2; missing from sequence 2: 1"))

(***************************************************************************)
(* Properties of assert_almost_equal and assert_not_almost_equal.          *)
(***************************************************************************)
\* The call passes a delta larger than 0 and no places.
WithDelta == call.places = None /\ call.delta # None /\ call.delta.v > 0

\* The two assertions on the arguments of the call, and on them swapped.
AlmostFails(first, second) ==
    assert_almost_equal(first, second, DefaultFmt, None, call.delta) # None
NotAlmostFails(first, second) ==
    assert_not_almost_equal(first, second, DefaultFmt, None, call.delta)
        # None

\* C20 (as claimed): with delta > 0, assert_almost_equal passes iff
\* |second - first| < delta, with the same verdict when first and second
\* are swapped, assert_not_almost_equal passes iff |second - first| >=
\* delta, and for every pair of numbers exactly one of the two fails.
C20_Claim ==
    /\ (Called("assert_almost_equal") /\ WithDelta) =>
          /\ result = Normal <=>
                lt(abs(sub(call.second, call.first)), call.delta)
          /\ result = Normal <=> ~AlmostFails(call.second, call.first)
          /\ result = Normal <=> NotAlmostFails(call.first, call.second)
    /\ (Called("assert_not_almost_equal") /\ WithDelta) =>
          /\ result = Normal <=>
                ge(abs(sub(call.second, call.first)), call.delta)
          /\ result = Normal <=> AlmostFails(call.first, call.second)

\* C20 for pairs of ints: the distance is that of the integers.
C20_Ints ==
    (call.fn \in {"assert_almost_equal", "assert_not_almost_equal"}
       /\ WithDelta /\ call.first.t = "int" /\ call.second.t = "int") =>
        /\ Called("assert_almost_equal") =>
              /\ result = Normal <=>
                    (call.second.v - call.first.v < call.delta.v
                     /\ call.first.v - call.second.v < call.delta.v)
              /\ result = Normal <=> ~AlmostFails(call.second, call.first)
              /\ result = Normal <=> NotAlmostFails(call.first, call.second)
        /\ Called("assert_not_almost_equal") =>
              /\ result = Normal <=>
                    (call.second.v - call.first.v >= call.delta.v
                     \/ call.first.v - call.second.v >= call.delta.v)
              /\ result = Normal <=> AlmostFails(call.first, call.second)

\* C21: assert_almost_equal and assert_not_almost_equal check their
\* arguments before they compare: with both places and delta the call
\* raises TypeError, also when delta <= 0, and with delta <= 0 alone it
\* raises ValueError, whatever first and second are; it never raises
\* AssertionError or returns.
C21_Validation ==
    (call.fn \in {"assert_almost_equal", "assert_not_almost_equal"}
       /\ result # NoOutcome) =>
        /\ (call.places # None /\ call.delta # None) =>
              result = Raise(NewExc("TypeError",
                  <<StrV("'places' and 'delta' are mutually exclusive")>>))
        /\ (call.places = None /\ call.delta # None /\ call.delta.v <= 0) =>
              result = Raise(NewExc("ValueError",
                  <<StrV("delta must be larger than 0")>>))

\* assert_not_almost_equal of two equal numbers with places and a delta of
\* 0 has raised TypeError, and assert_almost_equal of two equal numbers
\* with a negative delta alone raises ValueError.
C21_Witness ==
    /\ Called("assert_not_almost_equal")
    /\ call.first = IntV(1) /\ call.second = IntV(1)
    /\ call.places = IntV(DefaultPlaces) /\ call.delta = IntV(0)
    /\ result.kind = "raise" /\ result.exc.cls = "TypeError"
    /\ assert_almost_equal(IntV(1), IntV(1), DefaultFmt, None, IntV(0 - 1)).cls
           = "ValueError"

(***************************************************************************)
(* Properties of assert_equal on two dicts.                                *)
(***************************************************************************)
\* The call is assert_equal of two dicts with a template of the caller's
\* that names msg, first and second, and it fails.
EqualDictsFail ==
    /\ Called("assert_equal")
    /\ call.first.t = "dict" /\ call.second.t = "dict"
    /\ call.msg_fmt = StrV("{first} <> {second}: {msg}")
    /\ Fails(call)

\* The caller's template formatted with the default message, first and
\* second.
Honoured(c) ==
    fail_format(c.msg_fmt.v,
        pair_kwargs(call_raises(with_templates(c, None)).args[1].v,
                    c.first, c.second))

\* C29 (as claimed): when assert_equal fails on two dicts, the message of
\* the AssertionError is the caller's template formatted with msg, first
\* and second, when the key sets differ and when only a value differs.
C29_Claim == EqualDictsFail => result = Raise(Honoured(call))

\* C29 for two dicts whose key sets differ.
C29_Keys ==
    (EqualDictsFail /\ keys(call.first) # keys(call.second)) =>
        result = Raise(Honoured(call))

(***************************************************************************)
(* Properties of the message about a differing value.                      *)
(***************************************************************************)
\* The call is assert_dict_equal or assert_dict_superset of two dicts of
\* one and the same key whose values differ and are not both dicts, and
\* formatting value_msg_fmt raises nothing.
ValueMismatch ==
    /\ call.fn \in {"assert_dict_equal", "assert_dict_superset"}
    /\ result # NoOutcome
    /\ Len(call.first.v) = 1 /\ Len(call.second.v) = 1
    /\ keys(call.first) = keys(call.second)
    /\ ~(call.first.v[1][2].t = "dict" /\ call.second.v[1][2].t = "dict")
    /\ ~py_eq(call.first.v[1][2], call.second.v[1][2])
    /\ value_msg(call.first, call.second, call.first.v[1][1],
                 default(call.value_msg_fmt)).err = ""

\* The message obtained from value_msg_fmt.
ValueMessage ==
    value_msg(call.first, call.second, call.first.v[1][1],
              default(call.value_msg_fmt)).s

\* C30 (as claimed): on the value-mismatch path the AssertionError raised
\* carries exactly the message obtained from value_msg_fmt, character for
\* character, whatever the keys and the reprs of the values hold.
C30_Claim == ValueMismatch => result = Raise(AssertionError(ValueMessage))

\* C30 (amended): on the value-mismatch path the AssertionError raised
\* carries exactly the message obtained from value_msg_fmt, braces
\* included, whenever that message is not empty; an empty message is
\* replaced with "assertion failure".
C30_Escaped ==
    ValueMismatch =>
        result = Raise(AssertionError(IF ValueMessage = ""
                                      THEN "assertion failure"
                                      ELSE ValueMessage))

\* A key and two values that hold braces, under a template of the
\* caller's, are reported as they are.
C30_Witness ==
    /\ Called("assert_dict_superset")
    /\ call.first = DictV(<<<<StrV("{k}"), StrV("{msg}")>>>>)
    /\ call.second = DictV(<<<<StrV("{k}"), StrV("}{")>>>>)
    /\ call.value_msg_fmt = StrV("{key}={first_value!r}|{second_value!r}")
    /\ result = Raise(AssertionError("{k}='{msg}'|'}{'"))

(***************************************************************************)
(* Properties of exc_val and of the classification of a scope.             *)
(***************************************************************************)
\* C24 (as claimed): whenever exc_val returns a value, the value is an
\* exception of the matcher's expected class or of a subclass; after a
\* scope that a foreign exception has left, exc_val does not return it.
C24_Claim ==
    (IsRaises /\ read.kind = "value") =>
        issubclass(read.exc.cls, self.exception)

\* C25 (as claimed): in a second scope of the same matcher object, a read of
\* exc_val before the scope has ended, or after it has ended with its block
\* raising nothing, raises RuntimeError, whatever the earlier scope
\* captured.
C25_Claim ==
    (IsRaises /\ scopes >= 2 /\ read # NoOutcome
       /\ (phase = "in" \/ (phase = "out" /\ raised = None))) =>
        read = Raise(NewExc("RuntimeError",
                   <<StrV("must be called after leaving the context")>>))

\* C26 (as claimed): an exception whose bool() is false is classified as
\* any other exception: of the expected class, with every callback
\* returning, it is suppressed and exc_val returns it; of another class, it
\* leaves the with statement.
C26_Claim ==
    (IsRaises /\ phase = "out" /\ raised # None /\ ~raised.truthy) =>
        IF issubclass(raised.cls, self.exception)
        THEN (\A i \in DOMAIN self._tests : TestReturns(i, raised)) =>
                 /\ outcome = Normal
                 /\ exc_val(self) = [kind |-> "value", exc |-> raised]
        ELSE outcome = Raise(raised)

(***************************************************************************)
(* Properties of the placeholders of assert_raises_regex and               *)
(* assert_raises_errno.                                                    *)
(***************************************************************************)
RegexNames == {"msg", "exc_type", "exc_name", "text", "pattern"}
ErrnoNames ==
    {"msg", "exc_type", "exc_name", "expected_errno", "actual_errno"}

\* The scope of a matcher without caller's callbacks has ended.
EndedUntested == phase = "out" /\ Len(self._tests) = 1

\* C27: every failure path of an assert_raises_regex matcher (not raised,
\* without message, message does not match) hands msg_fmt the names msg,
\* exc_type, exc_name, text and pattern, and every failure path of an
\* assert_raises_errno matcher (not raised, wrong errno) the names msg,
\* exc_type, exc_name, expected_errno and actual_errno: with a template
\* that names all five, each path raises the AssertionError it formats,
\* never a KeyError.
C27_Placeholders ==
    /\ self.kind = "AssertRaisesRegexContext" =>
          /\ DOMAIN format_message_kwargs(self, "") = RegexNames
          /\ DOMAIN regex_kwargs(self, "", None) = RegexNames
          /\ (self.msg_fmt = RegexFmt /\ EndedUntested) =>
                /\ raised = None =>
                      outcome = Raise(AssertionError(
                          self.exception \o " not raised;" \o self.exception
                              \o ";" \o self.exception \o ";;foo"))
                /\ (RaisedExpected /\ raised.truthy /\ raised.args = << >>) =>
                      outcome = Raise(AssertionError(
                          self.exception \o " without message;"
                              \o self.exception \o ";" \o self.exception
                              \o ";None;foo"))
                /\ (RaisedExpected /\ raised.truthy
                      /\ raised.args = <<StrV("bar")>>) =>
                      outcome = Raise(AssertionError(
                          "'bar' does not match 'foo';" \o self.exception
                              \o ";" \o self.exception \o ";bar;foo"))
    /\ self.kind = "AssertRaisesErrnoContext" =>
          /\ DOMAIN format_message_kwargs(self, "") = ErrnoNames
          /\ (self.msg_fmt = ErrnoFmt /\ EndedUntested) =>
                /\ raised = None =>
                      outcome = Raise(AssertionError(
                          "OSError not raised;OSError;OSError;1;None"))
                /\ (RaisedExpected /\ raised.truthy
                      /\ raised.errno = IntV(2)) =>
                      outcome = Raise(AssertionError(
                          "wrong errno: 1 != 2;OSError;OSError;1;2"))
    /\ (self.msg_fmt \in {RegexFmt, ErrnoFmt} /\ outcome.kind = "raise") =>
          outcome.exc.cls # "KeyError" \/ outcome.exc.id # 0

\* A scope of assert_raises_regex with the template of all five names has
\* ended without an exception, on the path of format_message.
C27_Witness ==
    /\ self.kind = "AssertRaisesRegexContext" /\ self.msg_fmt = RegexFmt
    /\ phase = "out" /\ raised = None
    /\ outcome = Raise(AssertionError(
           "LookupError not raised;LookupError;LookupError;;foo"))

(***************************************************************************)
(* Properties of the payloads the registered callbacks are called with.    *)
(***************************************************************************)
\* Scopes of either variant under the default template: an error-variant
\* matcher of every class and kind, or an advisory matcher of every class
\* and kind with no filter ever set, and the operations of the variant in
\* use.
BothInit ==
    \/ Init /\ self.msg_fmt = DefaultFmt
    \/ WarnsInit /\ ambient = << >> /\ ctx[1]._msg_fmt = DefaultFmt

BothNext ==
    \/ /\ entered = 0 /\ issued = 0 /\ filters = << >>
       /\ ctx = [i \in MatcherIds |-> assert_warns("UserWarning", DefaultFmt)]
       /\ Next
    \/ /\ phase = "new" /\ self = assert_raises("KeyError", DefaultFmt)
       /\ (WarnsEnter(1) \/ WarnsAddTest(1) \/ Warn \/ WarnsExit)

SpecBoth == BothInit /\ [][BothNext]_vars

\* C23: the callbacks registered with add_test are called only with
\* payloads of the matching kind: on an error-variant matcher none is
\* called when the block raises nothing or an exception of another class;
\* on an advisory matcher none is called when no warning was recorded, and
\* every call is made with a recorded warning whose category is the
\* expected class or a subclass of it.
C23_Matching ==
    /\ (IsRaises /\ phase = "out"
          /\ (IF raised = None THEN TRUE
              ELSE ~issubclass(raised.cls, self.exception))) =>
          calls = << >>
    /\ wend.who # 0 =>
          /\ ctx[wend.who]._warnings = << >> => wend.calls = << >>
          /\ \A j \in DOMAIN wend.calls :
                /\ wend.calls[j][2] \in DOMAIN ctx[wend.who]._warnings
                /\ issubclass(
                       ctx[wend.who]._warnings[wend.calls[j][2]].category,
                       ctx[wend.who]._warning_class)

\* A scope with a callback has ended after recording a warning of another
\* category and then one of the expected class: the callbacks were called
\* with the second only.
C23_Witness ==
    /\ wend.who = 1
    /\ Len(ctx[1]._tests) >= 1
    /\ Len(ctx[1]._warnings) = 2
    /\ ~issubclass(ctx[1]._warnings[1].category, ctx[1]._warning_class)
    /\ issubclass(ctx[1]._warnings[2].category, ctx[1]._warning_class)
    /\ wend.calls # << >>
    /\ \A j \in DOMAIN wend.calls : wend.calls[j][2] = 2

(***************************************************************************)
(* assert_json_subset(first, second) and the comparer it runs.             *)
(***************************************************************************)
\* isinstance(v, types): bool is a subclass of int
isinstance(v, types) == v.t \in types \/ (v.t = "bool" /\ "int" \in types)

\* The number a bool, an int or a float of the model is.
number(v) ==
    CASE v.t = "bool" -> (IF v.v THEN 1 ELSE 0)
      [] v.t = "int" -> v.v
      [] v = FloatV("0.0") -> 0
      [] v = FloatV("1.0") -> 1

\* expected != actual, of two values that are no containers
ne(expected, actual) ==
    IF isinstance(expected, {"int", "float"}) /\ isinstance(actual, {"int", "float"})
    THEN number(expected) # number(actual)
    ELSE expected # actual

\* json_loads(second) of the texts of the model: the value decoded, or
\* the JSONDecodeError raised
json_loads(second) ==
    CASE second = StrV("[1]") -> ListV(<<IntV(1)>>)
      [] second = StrV("[1.0]") -> ListV(<<FloatV("1.0")>>)
      [] second = StrV("[true]") -> ListV(<<BoolV(TRUE)>>)
      [] second = StrV("{\"a\": 1, \"b\": null}") ->
             DictV(<<<<StrV("a"), IntV(1)>>, <<StrV("b"), None>>>>)
      [] second = StrV("1") -> IntV(1)
      [] OTHER -> ExcV(NewExc("JSONDecodeError",
                              <<StrV("Expecting value: line 1 column 1 (char 0)")>>))

\* _JSONPath.append(item)
append(path, item) == path \o "[" \o repr(item) \o "]"

\* _JSONComparer._types_differ; every expected value of the model is of a
\* supported type
_types_differ(expected, actual) ==
    IF expected = None THEN actual # None
    ELSE IF isinstance(expected, {"int", "float"})
    THEN ~isinstance(actual, {"int", "float"})
    ELSE IF isinstance(expected, {"bool"}) THEN ~isinstance(actual, {"bool"})
    ELSE IF isinstance(expected, {"str"}) THEN ~isinstance(actual, {"str"})
    ELSE IF isinstance(expected, {"list"}) THEN ~isinstance(actual, {"list"})
    ELSE ~isinstance(actual, {"dict"})

_raise_different_values(path, expected, actual) ==
    AssertionError("element " \o path \o " differs: " \o repr(expected)
                       \o " != " \o repr(actual))

_raise_different_sizes(path, expected, actual) ==
    AssertionError("JSON array " \o path \o " differs in size: "
                       \o ToString(Len(expected.v)) \o " != "
                       \o ToString(Len(actual.v)))

\* sorted_keys of the missing names, as reprs, and the message about them
_raise_missing_element(path, names) ==
    IF Cardinality(names) = 1
    THEN AssertionError("element " \o repr(CHOOSE k \in names : TRUE)
                            \o " missing from element " \o path)
    ELSE AssertionError(
             "elements "
                 \o join_from(SubSeq(sorted_reprs(names, 1), 1,
                                     Len(sorted_reprs(names, 1)) - 1), 1)
                 \o ", and "
                 \o sorted_reprs(names, 1)[Len(sorted_reprs(names, 1))]
                 \o " missing from element " \o path)

_assert_fundamental_values_equal(path, expected, actual) ==
    IF ne(expected, actual) THEN _raise_different_values(path, expected, actual)
    ELSE None

\* The i-th item the loops of _assert_dicts_equal and _assert_arrays_equal
\* visit: a name of the expected object or an index of the expected array;
\* and container[item].
item_at(expected, i) ==
    IF expected.t = "dict" THEN expected.v[i][1] ELSE IntV(i - 1)

subscript(container, item) ==
    IF container.t = "dict" THEN getitem(container, item)
    ELSE container.v[item.v + 1]

(***************************************************************************)
(* _JSONComparer(path, expected, actual).assert_(): the AssertionError it  *)
(* raises, or None when it returns.                                        *)
(***************************************************************************)
RECURSIVE assert_(_, _, _)
_assert_json_value_equals_with_item(path, expected, actual, item) ==
    assert_(append(path, item), subscript(expected, item),
            subscript(actual, item))

\* The loop over the items of expected from the i-th on: the first error.
RECURSIVE items_from(_, _, _, _)
items_from(path, expected, actual, i) ==
    IF i > Len(expected.v) THEN None
    ELSE IF _assert_json_value_equals_with_item(
                path, expected, actual, item_at(expected, i)) # None
    THEN _assert_json_value_equals_with_item(
             path, expected, actual, item_at(expected, i))
    ELSE items_from(path, expected, actual, i + 1)

_assert_dicts_equal(path, expected, actual) ==
    IF keys(expected) \ keys(actual) # {}
    THEN _raise_missing_element(path, keys(expected) \ keys(actual))
    ELSE items_from(path, expected, actual, 1)

_assert_arrays_equal(path, expected, actual) ==
    IF Len(expected.v) # Len(actual.v)
    THEN _raise_different_sizes(path, expected, actual)
    ELSE items_from(path, expected, actual, 1)

assert_(path, expected, actual) ==
    IF _types_differ(expected, actual)
    THEN _raise_different_values(path, expected, actual)
    ELSE IF expected.t = "dict" THEN _assert_dicts_equal(path, expected, actual)
    ELSE IF expected.t = "list" THEN _assert_arrays_equal(path, expected, actual)
    ELSE _assert_fundamental_values_equal(path, expected, actual)

\* parsed_second
parsed(second) == IF second.t = "str" THEN json_loads(second) ELSE second

assert_json_subset(first, second) ==
    IF second.t \notin {"dict", "list", "str"}
    THEN NewExc("TypeError", <<StrV("second must be dict, list, str, or bytes")>>)
    ELSE IF parsed(second).t = "exc" THEN parsed(second).v
    ELSE IF parsed(second).t \notin {"dict", "list"}
    THEN AssertionError("second must decode to dict or list, not <class '"
                            \o parsed(second).t \o "'>")
    ELSE assert_("$", first, parsed(second))

(***************************************************************************)
(* The calls of assert_json_subset: arrays of at most MaxLen scalars       *)
(* against arrays of as many numbers and booleans, objects of names 'a'    *)
(* and 'b' in either order against such objects, and documents against     *)
(* JSON texts and against a value that is no document.                     *)
(***************************************************************************)
MaxLen == 2

JsonScalars ==
    {None, BoolV(TRUE), BoolV(FALSE), IntV(0), IntV(1), FloatV("1.0"), StrV("a")}
JsonNumbers == {BoolV(TRUE), IntV(0), IntV(1), FloatV("1.0")}
JsonArrays(scalars) ==
    {ListV(items) : items \in UNION {[1..n -> scalars] : n \in 0..MaxLen}}
JsonMembers ==
    {IntV(1), BoolV(TRUE), FloatV("1.0"), None, StrV("a"),
     ListV(<<IntV(1)>>), ListV(<<BoolV(TRUE)>>), ListV(<<IntV(1), IntV(0)>>),
     DictV(<<<<StrV("a"), IntV(1)>>>>),
     DictV(<<<<StrV("a"), BoolV(TRUE)>>>>),
     DictV(<<<<StrV("a"), IntV(1)>>, <<StrV("b"), ListV(<<None>>)>>>>)}
JsonOrdered ==
    {DictV(<< >>)}
    \cup {DictV(<<<<k, v>>>>) : k \in {StrV("a"), StrV("b")}, v \in JsonMembers}
    \cup {DictV(<<<<StrV("a"), v>>, <<StrV("b"), w>>>>) :
             v \in JsonMembers, w \in JsonMembers}
JsonObjects ==
    JsonOrdered
    \cup {DictV(<<<<StrV("b"), v>>, <<StrV("a"), w>>>>) :
             v \in JsonMembers, w \in JsonMembers}
JsonTexts ==
    {StrV("[1]"), StrV("[1.0]"), StrV("[true]"),
     StrV("{\"a\": 1, \"b\": null}"), StrV("1"), StrV("INVALID JSON")}
JsonSeconds == JsonTexts \cup {IntV(1), ListV(<<IntV(1)>>), DictV(<< >>)}
JsonFirsts ==
    {ListV(<<IntV(1)>>), ListV(<<BoolV(TRUE)>>), DictV(<< >>),
     DictV(<<<<StrV("a"), IntV(1)>>>>), IntV(1)}

JsonCall(a, b) == [fn |-> "assert_json_subset", first |-> a, second |-> b]

JsonInit ==
    /\ self = assert_raises("KeyError", DefaultFmt)
    /\ RInit
    /\ ctx = [i \in MatcherIds |-> assert_warns("UserWarning", DefaultFmt)]
    /\ ambient = << >>
    /\ WInit
    /\ result = NoOutcome
    /\ \/ \E a \in JsonArrays(JsonScalars), b \in JsonArrays(JsonNumbers) :
              call = JsonCall(a, b)
       \/ \E a \in JsonObjects, b \in JsonOrdered : call = JsonCall(a, b)
       \/ \E a \in JsonFirsts, b \in JsonSeconds : call = JsonCall(a, b)

CallJsonSubset ==
    /\ call.fn = "assert_json_subset"
    /\ Return(assert_json_subset(call.first, call.second))

SpecJson == JsonInit /\ [][CallJsonSubset]_vars

(***************************************************************************)
(* Properties of assert_json_subset.                                       *)
(***************************************************************************)
\* Two JSON values that are neither objects nor arrays are equal: booleans
\* only to the same boolean, numbers (integers and floats alike) to numbers
\* of the same value, strings and null to themselves.
JsonEqual(a, b) ==
    IF a.t \in {"int", "float"} /\ b.t \in {"int", "float"}
    THEN number(a) = number(b)
    ELSE a = b

\* first is a JSON subset of second.
RECURSIVE JsonSubset(_, _)
JsonSubset(a, b) ==
    IF a.t = "dict"
    THEN /\ b.t = "dict"
         /\ \A k \in keys(a) :
               k \in keys(b) /\ JsonSubset(getitem(a, k), getitem(b, k))
    ELSE IF a.t = "list"
    THEN /\ b.t = "list"
         /\ Len(a.v) = Len(b.v)
         /\ \A i \in DOMAIN a.v : JsonSubset(a.v[i], b.v[i])
    ELSE JsonEqual(a, b)

\* The JSON paths, from path on, of the elements of a that are no subset of
\* the element of b at the same place.
RECURSIVE Offending(_, _, _)
Offending(path, a, b) ==
    IF JsonSubset(a, b) THEN {}
    ELSE {path}
         \cup (IF a.t = "dict" /\ b.t = "dict"
               THEN UNION {Offending(append(path, k), getitem(a, k), getitem(b, k)) :
                              k \in keys(a) \cap keys(b)}
               ELSE IF a.t = "list" /\ b.t = "list" /\ Len(a.v) = Len(b.v)
               THEN UNION {Offending(append(path, IntV(i - 1)), a.v[i], b.v[i]) :
                              i \in DOMAIN a.v}
               ELSE {})

\* The text part occurs in s.
Occurs(part, s) ==
    \E i \in 1..(Len(s) - Len(part) + 1) : SubSeq(s, i, i + Len(part) - 1) = part

\* The call compares a document with a JSON object or array.
Compared ==
    /\ Called("assert_json_subset")
    /\ call.first.t \in {"dict", "list"}
    /\ parsed(call.second).t \in {"dict", "list"}

\* The call failed with an AssertionError that names a path of paths.
NamesPath(paths) ==
    /\ result.kind = "raise"
    /\ result.exc.cls = "AssertionError"
    /\ \E p \in paths :
          \/ Occurs("element " \o p \o " differs", result.exc.args[1].v)
          \/ Occurs("array " \o p \o " differs", result.exc.args[1].v)
          \/ Occurs("missing from element " \o p, result.exc.args[1].v)

\* C22: assert_json_subset(first, second) passes iff first is a JSON
\* subset of second (values that are neither objects nor arrays equal,
\* every name of an object of first in the object of second with a
\* superset for value, arrays of the same length with subsets position by
\* position), and a failure is an AssertionError that names the JSON path
\* of an offending element.
C22_Claim ==
    Compared =>
        IF JsonSubset(call.first, parsed(call.second)) THEN result = Normal
        ELSE NamesPath(Offending("$", call.first, parsed(call.second)))

\* A boolean of a stands where b has a number, or a number where b has a
\* boolean, at some place the comparison reaches.
RECURSIVE Mixed(_, _)
Mixed(a, b) ==
    IF a.t = "dict" /\ b.t = "dict"
    THEN \E k \in keys(a) \cap keys(b) : Mixed(getitem(a, k), getitem(b, k))
    ELSE IF a.t = "list" /\ b.t = "list" /\ Len(a.v) = Len(b.v)
    THEN \E i \in DOMAIN a.v : Mixed(a.v[i], b.v[i])
    ELSE \/ a.t = "bool" /\ b.t \in {"int", "float"}
         \/ a.t \in {"int", "float"} /\ b.t = "bool"

\* C22 for the documents in which no boolean faces a number.
C22_Unmixed ==
    (Compared /\ ~Mixed(call.first, parsed(call.second))) => C22_Claim

\* The call compares the one-element arrays [x] and [y].
Single ==
    /\ Compared
    /\ call.first.t = "list" /\ Len(call.first.v) = 1
    /\ parsed(call.second).t = "list" /\ Len(parsed(call.second).v) = 1

\* C28: assert_json_subset keeps booleans and numbers distinct: a boolean
\* expected where a number is, or a number expected where a boolean is,
\* fails with 'element <path> differs', while an integer and a float of
\* equal value match.
C28_Claim ==
    Single =>
        /\ Mixed(call.first, parsed(call.second)) =>
              /\ result.kind = "raise"
              /\ result.exc.cls = "AssertionError"
              /\ Occurs("element $[0] differs", result.exc.args[1].v)
        /\ (/\ call.first.v[1].t \in {"int", "float"}
            /\ parsed(call.second).v[1].t \in {"int", "float"}
            /\ number(call.first.v[1]) = number(parsed(call.second).v[1])) =>
              result = Normal

\* C28 for a boolean and a number that Python's == tells apart: True against
\* a number other than 1, False against a number other than 0.
C28_Unequal ==
    (Single /\ (Mixed(call.first, parsed(call.second)) =>
                   number(call.first.v[1]) # number(parsed(call.second).v[1])))
        => C28_Claim

====
